---- MODULE Spec2Model ----
(***************************************************************************)
(* Attribution engine of calc-ai-contrib: co-author extraction, pair       *)
(* classification, per-file line distribution, aggregation over a run and  *)
(* the statistics finisher (src/src/contributions.ts, src/src/analyzer.ts).*)
(*                                                                         *)
(* Conventions.  A JavaScript string that is undefined or '' is the empty  *)
(* string "": every place the code reads a name, login or email tests it   *)
(* for truthiness (||, &&, !, Boolean), which treats both alike.  A        *)
(* Map<string, UserStats> is a sequence of entries with distinct `user`    *)
(* keys, in insertion order (the iteration order of a JavaScript Map).     *)
(***************************************************************************)
EXTENDS Integers, Sequences, FiniteSets, TLC

VARIABLES
    phase,      \* position of the control flow of the specification at hand
    inFile,     \* engine: the GitHubFile handed to the distribution engine
    inCommits,  \* engine: the (already filtered) commit list handed to it
    inAi,       \* engine: exclusionOptions.aiEmails
    flags,      \* engine: isPairProgrammingCommit of each commit, in order
    out,        \* engine: value returned by the distribution engine
    exclusionOptions,    \* run: the ExclusionOptions of analyzePullRequestsCore
    aggregatedUserStats, \* run: the Map accumulated over the whole run
    totalAdditions,      \* run: let totalAdditions (individual lines included)
    totalDeletions,      \* run: let totalDeletions
    totalPairAdditions,  \* run: let totalPairAdditions
    totalPairDeletions,  \* run: let totalPairDeletions
    allPrNumbers,        \* run: const allPrNumbers
    repoIdx,             \* run: index of the repository the outer loop is at
    prNumbers,           \* run: pull requests of that repository still to analyze
    result,              \* run: the value returned by analyzePullRequestsCore
    baseRun,             \* run: the same run on the same inputs with no contributor excluded
    primaryIds,          \* run: identities the engine was entitled to credit so far
    aiAuthorSeen,        \* run: some commit handed to the engine has an AI primary author
    failed,              \* run: a fetch or a discovery of this run has thrown
    fetched,             \* run: lines of the files that passed filterFiles so far
    discovered,          \* run: the lists getPRNumbersForRepo returned so far
    closedPRs,       \* discovery: the closed pull requests, most recently updated first
    window,          \* discovery: startDate, endDate and the time zone of the process
    page,            \* discovery: let page
    prNumbersFound,  \* discovery: const prNumbers of findPRsByDateRange
    returned,        \* discovery: the value findPRsByDateRange returned
    prFiles,         \* pipeline: what pulls.listFiles returned for the pull request
    prCommits,       \* pipeline: what getPRCommits returned for it
    keptFiles,       \* pipeline: const filteredFiles
    keptCommits,     \* pipeline: const filteredCommits
    engineOut,       \* pipeline: what the engine returned for each filtered file
    leftover,        \* pipeline: the run state the previous run ended with
    runs,            \* pipeline: the results of the runs made so far
    counts,          \* pool: additions and deletions of a file, its commits, its pair commits
    pools,           \* pool: the pair pool and the non-pair pool computed for them
    statsMap,        \* merge: the Map handed to mergeUserStats
    ledger,          \* merge: the calls of mergeUserStats made so far
    message,         \* parse: the commit message handed to parseCoAuthors
    parsed,          \* parse: what parseCoAuthors returned for it
    stages,          \* flow: where the handling of each pull request stands
    mergeLog         \* flow: the pull request of each merge, in the order of the merges

engineVars == <<phase, inFile, inCommits, inAi, flags, out>>
engineVarsButPhase == <<inFile, inCommits, inAi, flags, out>>
runVars == <<exclusionOptions, aggregatedUserStats, totalAdditions, totalDeletions,
             totalPairAdditions, totalPairDeletions, allPrNumbers, repoIdx, prNumbers,
             result, baseRun, primaryIds, aiAuthorSeen, failed, fetched, discovered>>
discoverVars == <<closedPRs, window, page, prNumbersFound, returned>>
pipelineVars == <<prFiles, prCommits, keptFiles, keptCommits, engineOut, leftover,
                  runs>>
poolVars == <<counts, pools>>
mergeVars == <<statsMap, ledger>>
parseVars == <<message, parsed>>
flowVars == <<stages, mergeLog>>
unitVars == <<mergeVars, parseVars, flowVars>>
notRunVars == <<engineVarsButPhase, discoverVars, pipelineVars, poolVars, unitVars>>
notEngineVars == <<runVars, discoverVars, pipelineVars, poolVars, unitVars>>
notPipelineVars == <<engineVarsButPhase, runVars, discoverVars, poolVars, unitVars>>
notPoolVars == <<engineVarsButPhase, runVars, discoverVars, pipelineVars, unitVars>>
notDiscoverVars == <<engineVarsButPhase, runVars, pipelineVars, poolVars, unitVars>>
notMergeVars == <<engineVarsButPhase, runVars, discoverVars, pipelineVars, poolVars,
                  parseVars, flowVars>>
notParseVars == <<engineVarsButPhase, runVars, discoverVars, pipelineVars, poolVars,
                  mergeVars, flowVars>>
notFlowVars == <<engineVarsButPhase, runVars, discoverVars, pipelineVars, poolVars,
                 mergeVars, parseVars>>
vars == <<phase, inFile, inCommits, inAi, flags, out, exclusionOptions,
          aggregatedUserStats, totalAdditions, totalDeletions, totalPairAdditions,
          totalPairDeletions, allPrNumbers, repoIdx, prNumbers, result, baseRun,
          primaryIds, aiAuthorSeen, failed, fetched, discovered, closedPRs, window,
          page, prNumbersFound, returned, prFiles, prCommits, keptFiles, keptCommits, engineOut,
          leftover, runs, counts, pools, statsMap, ledger, message, parsed, stages,
          mergeLog>>

-----------------------------------------------------------------------------
(* Bounds of the model *)

MaxAdd == 3
MaxDel == 1
MaxCommits == 2
MaxPRs == 2
MaxDay == 2
MaxPoolLines == 90
MaxPoolDel == 4
MaxPoolCommits == 10

-----------------------------------------------------------------------------
(* Input universe *)

\* commit.author.login / commit.commit.author.{name,email} of the commits
Authors ==
    { [login |-> "alice", name |-> "Alice", email |-> "alice@h"],
      [login |-> "bob",   name |-> "Bob",   email |-> "bob@h"],
      [login |-> "bot",   name |-> "Bot",   email |-> "bot@ai"],
      [login |-> "",      name |-> "Carol", email |-> ""],
      [login |-> "",      name |-> "",      email |-> ""] }

\* commit.commit.message is a sequence of lines, the text of the message is
\* its lines joined by line feeds, and a line is a sequence of tokens: the
\* label 'Co-authored-by:', the space " ", "<", ">" and words, a word being a
\* non-empty string without space, line feed, "<" or ">".
Label == "Co-authored-by:"

\* A line of one word, and a line of the shape  label name <email>
TextLine(t) == <<t>>
TrailerLine(n, e) ==
    <<Label, " ">> \o (IF n = "" THEN <<>> ELSE <<n, " ">>) \o <<"<">>
                  \o (IF e = "" THEN <<>> ELSE <<e>>) \o <<">">>

Messages ==
    { <<TextLine("fix")>>,
      <<TextLine("fix"), TrailerLine("Bot", "bot@ai")>>,
      <<TrailerLine("Alice", "alice@h")>>,
      <<TrailerLine("Alice", "alice@h"), TrailerLine("Bot", "bot@ai")>>,
      <<TrailerLine("", "bot@ai"), TextLine("fix")>> }

EngineCommits ==
    { [login |-> a.login, name |-> a.name, email |-> a.email, message |-> m] :
        a \in Authors, m \in Messages }

AiEmailSets == { {}, {"bot@ai"}, {"bot@ai", "alice@h"} }

Files == [filename : {"a.ts"}, additions : 0..MaxAdd, deletions : 0..MaxDel]

RECURSIVE SeqsUpTo(_, _)
SeqsUpTo(S, n) ==
    IF n = 0 THEN { <<>> }
    ELSE LET shorter == SeqsUpTo(S, n - 1)
         IN shorter \cup { Append(s, x) : s \in { t \in shorter : Len(t) = n - 1 }, x \in S }

-----------------------------------------------------------------------------
(* Map<string, UserStats> *)

MapHas(m, k) == \E i \in 1..Len(m) : m[i].user = k
MapIndex(m, k) == CHOOSE i \in 1..Len(m) : m[i].user = k
\* Map.prototype.set: an existing key keeps its position
MapSet(m, k, v) ==
    IF MapHas(m, k) THEN [m EXCEPT ![MapIndex(m, k)] = v] ELSE Append(m, v)

Entry(user, a, d, pa, pd, name, email) ==
    [user |-> user, additions |-> a, deletions |-> d,
     pairAdditions |-> pa, pairDeletions |-> pd, name |-> name, email |-> email]

-----------------------------------------------------------------------------
(* contributions.ts *)

\* The text of a message: its lines joined by "\n"
RECURSIVE JoinLines(_)
JoinLines(lines) ==
    IF lines = <<>> THEN <<>>
    ELSE IF Len(lines) = 1 THEN lines[1]
    ELSE lines[1] \o <<"\n">> \o JoinLines(Tail(lines))

\* \s of the regular expression: the space and the line feed
IsSpace(t) == t = " " \/ t = "\n"

\* The number of \s tokens of text from position i on
RECURSIVE SpaceRun(_, _)
SpaceRun(text, i) ==
    IF i <= Len(text) /\ IsSpace(text[i]) THEN 1 + SpaceRun(text, i + 1) ELSE 0

\* The last \s* and the $ of the expression (flag m) after the ">" at m: the
\* position the match ends at, which is the end of the text when the run of
\* \s after m reaches it and else the position before the last line feed of
\* that run; 0 when the run ends on neither
EndOfMatch(text, m, w) ==
    IF m + w = Len(text) THEN m + w
    ELSE LET feeds == { c \in 0..(w - 1) : text[m + 1 + c] = "\n" }
         IN IF feeds = {} THEN 0
            ELSE m + CHOOSE c \in feeds : \A d \in feeds : d <= c

\* <(.+?)> from the "<" at k: the position of the first ">" that has at least
\* one token and no line feed between k and itself and that \s*$ can follow;
\* 0 when there is none.  m is the position tried.
RECURSIVE CloseOfEmail(_, _, _)
CloseOfEmail(text, k, m) ==
    IF m > Len(text) \/ text[m - 1] = "\n" THEN 0
    ELSE IF text[m] = ">" /\ EndOfMatch(text, m, SpaceRun(text, m + 1)) # 0 THEN m
    ELSE CloseOfEmail(text, k, m + 1)

NoMatch == [name |-> <<>>, email |-> <<>>, end |-> 0]

\* The two groups and the end of a match whose name is text[q..e-1], whose
\* "<" is at k and whose ">" is at m
Captured(text, q, e, k, m) ==
    [name |-> SubSeq(text, q, e - 1), email |-> SubSeq(text, k + 1, m - 1),
     end |-> EndOfMatch(text, m, SpaceRun(text, m + 1))]

\* The ">" for the "<" expected at k, 0 when k holds no "<"
CloseFrom(text, k) ==
    IF k <= Len(text) /\ text[k] = "<" THEN CloseOfEmail(text, k, k + 2) ELSE 0

\* (.+?)\s*<(.+?)>\s*$ with the name starting at q: the name is the shortest
\* run of tokens without line feed after which \s* reaches a "<" that
\* CloseOfEmail can close.  e is the position after the name tried.
RECURSIVE MatchName(_, _, _)
MatchName(text, q, e) ==
    IF e - 1 > Len(text) \/ text[e - 1] = "\n" THEN NoMatch
    ELSE IF CloseFrom(text, e + SpaceRun(text, e)) # 0
         THEN Captured(text, q, e, e + SpaceRun(text, e),
                       CloseFrom(text, e + SpaceRun(text, e)))
         ELSE MatchName(text, q, e + 1)

\* The first \s* after the label at p is greedy: it takes a tokens, the most
\* first
RECURSIVE MatchAt(_, _, _)
MatchAt(text, p, a) ==
    IF a < 0 THEN NoMatch
    ELSE IF MatchName(text, p + 1 + a, p + 2 + a) # NoMatch
         THEN MatchName(text, p + 1 + a, p + 2 + a)
         ELSE MatchAt(text, p, a - 1)

\* String.prototype.trim on a run of tokens
RECURSIVE TrimLeft(_)
TrimLeft(tokens) ==
    IF tokens # <<>> /\ IsSpace(Head(tokens)) THEN TrimLeft(Tail(tokens)) ELSE tokens

RECURSIVE TrimRight(_)
TrimRight(tokens) ==
    IF tokens # <<>> /\ IsSpace(tokens[Len(tokens)])
    THEN TrimRight(SubSeq(tokens, 1, Len(tokens) - 1)) ELSE tokens

Trim(tokens) == TrimRight(TrimLeft(tokens))

\* The string a run of tokens spells
RECURSIVE Joined(_)
Joined(tokens) == IF tokens = <<>> THEN "" ELSE Head(tokens) \o Joined(Tail(tokens))

\* if (name && email) coAuthors.push({ name, email })
Pushed(coAuthors, name, email) ==
    IF name # "" /\ email # "" THEN Append(coAuthors, [name |-> name, email |-> email])
    ELSE coAuthors

\* The loop of coAuthorRegex.exec: ^ (flag m) lets a match start at the
\* label only where the text or a line starts; the search goes on after the
\* end of the match (lastIndex), or at the next position when none starts here
RECURSIVE ExecAll(_, _, _)
RECURSIVE ExecFound(_, _, _, _)
ExecFound(text, from, match, coAuthors) ==
    IF match = NoMatch THEN ExecAll(text, from + 1, coAuthors)
    ELSE ExecAll(text, match.end + 1,
                 Pushed(coAuthors, Joined(Trim(match.name)), Joined(Trim(match.email))))

ExecAll(text, from, coAuthors) ==
    IF from > Len(text) THEN coAuthors
    ELSE IF text[from] = Label /\ (from = 1 \/ text[from - 1] = "\n")
         THEN ExecFound(text, from, MatchAt(text, from, SpaceRun(text, from + 1)),
                        coAuthors)
         ELSE ExecAll(text, from + 1, coAuthors)

\* contributions.ts lines 289-304
parseCoAuthors(commitMessage) == ExecAll(JoinLines(commitMessage), 1, <<>>)

\* [authorEmail, ...coAuthorEmails].filter(Boolean)
AllEmails(authorEmail, coAuthorEmails) ==
    SelectSeq(<<authorEmail>> \o coAuthorEmails, LAMBDA e : e # "")

\* A variant that keeps the empty entries
AllEmailsUnfiltered(authorEmail, coAuthorEmails) == <<authorEmail>> \o coAuthorEmails

\* A variant that takes any commit with two emails of different kind or not
isPairProgrammingCommitOnEither(allEmails, aiEmails) ==
    IF Len(allEmails) <= 1 THEN FALSE
    ELSE LET hasAI == \E i \in 1..Len(allEmails) : allEmails[i] \in aiEmails
             hasHuman == \E i \in 1..Len(allEmails) : allEmails[i] \notin aiEmails
         IN hasAI \/ hasHuman

isPairProgrammingCommitOn(allEmails, aiEmails) ==
    IF Len(allEmails) <= 1 THEN FALSE
    ELSE LET hasAI == \E i \in 1..Len(allEmails) : allEmails[i] \in aiEmails
             hasHuman == \E i \in 1..Len(allEmails) : allEmails[i] \notin aiEmails
         IN hasAI /\ hasHuman

isPairProgrammingCommitNoFilter(authorEmail, coAuthorEmails, aiEmails) ==
    isPairProgrammingCommitOn(AllEmailsUnfiltered(authorEmail, coAuthorEmails), aiEmails)

isPairProgrammingCommit(authorEmail, coAuthorEmails, aiEmails) ==
    isPairProgrammingCommitOn(AllEmails(authorEmail, coAuthorEmails), aiEmails)

\* coAuthors.map((ca) => ca.email).filter(Boolean)
CoAuthorEmails(commit) ==
    LET coAuthors == parseCoAuthors(commit.message)
    IN SelectSeq([i \in 1..Len(coAuthors) |-> coAuthors[i].email], LAMBDA e : e # "")

IsPairCommit(commit, aiEmails) ==
    isPairProgrammingCommit(commit.email, CoAuthorEmails(commit), aiEmails)

\* authorLogin || commit.commit?.author?.name || 'Unknown'
AuthorOf(commit) ==
    IF commit.login # "" THEN commit.login
    ELSE IF commit.name # "" THEN commit.name
    ELSE "Unknown"

\* The Map built by the loops at lines 189-198 and 241-250: distinct author
\* identities in order of first appearance, each with the name and email of
\* the first commit that shows it
RECURSIVE AuthorsMapFrom(_, _)
AuthorsMapFrom(commits, acc) ==
    IF commits = <<>> THEN acc
    ELSE LET commit == Head(commits)
             author == AuthorOf(commit)
         IN AuthorsMapFrom(Tail(commits),
               IF \E i \in 1..Len(acc) : acc[i].author = author THEN acc
               ELSE Append(acc, [author |-> author, name |-> commit.name,
                                 email |-> commit.email]))

AuthorsMap(commits) == AuthorsMapFrom(commits, <<>>)

\* Math.floor(x / n) for x >= 0, n >= 1
FloorDiv(x, n) == x \div n

\* The arguments with x <= 100 and n <= 12 on which the double-precision
\* product x * (p / n) falls just below the integer x * p / n, e.g.
\* 90 * 0.7 = 62.99999999999999
DoubleShortfall ==
    { <<90, 7, 10>>, <<55, 3, 11>>, <<99, 3, 11>>, <<55, 6, 11>>, <<99, 6, 11>> }

\* Math.floor(x * (p / n)) for x <= 100 and n <= 12: the floor of the exact
\* quotient, one less where the double-precision product falls short
FloorTimesRatio(x, p, n) ==
    IF <<x, p, n>> \in DoubleShortfall THEN ((x * p) \div n) - 1 ELSE (x * p) \div n

\* A variant that sets one commit's share aside as pair pool whether or not
\* there is a pair commit
PairPoolLinesUnguarded(lines, pairCount, commitCount) ==
    FloorTimesRatio(lines, IF pairCount > 0 THEN pairCount ELSE 1, commitCount)

\* Lines 180-183: pairRatio = pairCommits.length / commits.length and
\* Math.floor(lines * pairRatio), 0 without pair commit
PairPoolLines(lines, pairCount, commitCount) ==
    IF pairCount > 0 THEN FloorTimesRatio(lines, pairCount, commitCount) ELSE 0

\* A variant in which the first recipient takes the remainder
ShareRemainderFirst(pool, n, i) ==
    IF i = 1 THEN pool - FloorDiv(pool, n) * (n - 1) ELSE FloorDiv(pool, n)

\* A variant in which the last recipient takes no remainder
ShareNoRemainder(pool, n, i) == FloorDiv(pool, n)

\* Share of the i-th of n recipients of a pool: floor(pool / n), the last
\* recipient takes pool - floor(pool / n) * (n - 1)
Share(pool, n, i) ==
    IF i = n THEN pool - FloorDiv(pool, n) * (n - 1) ELSE FloorDiv(pool, n)

\* userContributions.get(author) || { 0, 0, 0, 0, name, email }
ExistingStats(userContributions, authorInfo) ==
    IF MapHas(userContributions, authorInfo.author)
    THEN userContributions[MapIndex(userContributions, authorInfo.author)]
    ELSE Entry(authorInfo.author, 0, 0, 0, 0, authorInfo.name, authorInfo.email)

\* Loop at lines 205-230: the pair pool over the pair authors, from index i on
RECURSIVE AttributePair(_, _, _, _, _)
AttributePair(userContributions, pairAuthors, pairAdditions, pairDeletions, i) ==
    IF i > Len(pairAuthors) THEN userContributions
    ELSE LET n == Len(pairAuthors)
             existingStats == ExistingStats(userContributions, pairAuthors[i])
             updated == [existingStats EXCEPT
                 !.pairAdditions = @ + Share(pairAdditions, n, i),
                 !.pairDeletions = @ + Share(pairDeletions, n, i)]
         IN AttributePair(MapSet(userContributions, pairAuthors[i].author, updated),
                          pairAuthors, pairAdditions, pairDeletions, i + 1)

\* Loop at lines 256-277: the non-pair pool over the non-pair authors
RECURSIVE AttributeSolo(_, _, _, _, _)
AttributeSolo(userContributions, authors, nonPairAdditions, nonPairDeletions, i) ==
    IF i > Len(authors) THEN userContributions
    ELSE LET n == Len(authors)
             existingStats == ExistingStats(userContributions, authors[i])
             updated == [existingStats EXCEPT
                 !.additions = @ + Share(nonPairAdditions, n, i),
                 !.deletions = @ + Share(nonPairDeletions, n, i)]
         IN AttributeSolo(MapSet(userContributions, authors[i].author, updated),
                          authors, nonPairAdditions, nonPairDeletions, i + 1)

PairCommitsOf(commits, aiEmails) == SelectSeq(commits, LAMBDA c : IsPairCommit(c, aiEmails))
NonPairCommitsOf(commits, aiEmails) == SelectSeq(commits, LAMBDA c : ~IsPairCommit(c, aiEmails))

\* A variant that also credits every co-author of a pair commit
CoAuthorsAsCommits(commit) ==
    LET coAuthors == parseCoAuthors(commit.message)
    IN <<commit>> \o [i \in 1..Len(coAuthors) |->
            [login |-> "", name |-> coAuthors[i].name, email |-> coAuthors[i].email,
             message |-> <<>>]]

RECURSIVE WithCoAuthors(_)
WithCoAuthors(commits) ==
    IF commits = <<>> THEN <<>>
    ELSE CoAuthorsAsCommits(Head(commits)) \o WithCoAuthors(Tail(commits))

PairAuthorsCreditingCoAuthors(pairCommits) == AuthorsMap(WithCoAuthors(pairCommits))

\* pairAuthorsMap of lines 187-200: primary authors of the pair commits only
PairAuthors(pairCommits) == AuthorsMap(pairCommits)

\* A variant that attributes the file of an empty commit list to nobody
NobodyForEmptyList(file) ==
    [userContributions |-> <<>>, pairContributions |-> [additions |-> 0, deletions |-> 0]]

\* Lines 150-158: the whole file goes to the identity 'Unknown'
UnknownForEmptyList(file) ==
    [userContributions |->
         <<Entry("Unknown", file.additions, file.deletions, 0, 0, "", "")>>,
     pairContributions |-> [additions |-> 0, deletions |-> 0]]

distributeFileContributionsWithPairTracking(commits, file, aiEmails) ==
    IF Len(commits) = 0
    THEN UnknownForEmptyList(file)
    ELSE LET pairCommits == PairCommitsOf(commits, aiEmails)
             nonPairCommits == NonPairCommitsOf(commits, aiEmails)
             pairAdditions == PairPoolLines(file.additions, Len(pairCommits), Len(commits))
             pairDeletions == PairPoolLines(file.deletions, Len(pairCommits), Len(commits))
             afterPair ==
                 IF Len(pairCommits) > 0
                 THEN AttributePair(<<>>, PairAuthors(pairCommits),
                                    pairAdditions, pairDeletions, 1)
                 ELSE <<>>
             afterSolo ==
                 IF Len(nonPairCommits) > 0
                 THEN AttributeSolo(afterPair, AuthorsMap(nonPairCommits),
                                    file.additions - pairAdditions,
                                    file.deletions - pairDeletions, 1)
                 ELSE afterPair
         IN [userContributions |-> afterSolo,
             pairContributions |-> [additions |-> pairAdditions,
                                    deletions |-> pairDeletions]]

\* distributeFileContributions of analyzer.ts (lines 166-210), the split
\* without pair tracking: entries of user, additions, deletions, name, email
LegacyEntry(authorInfo, additions, deletions) ==
    [user |-> authorInfo.author, additions |-> additions, deletions |-> deletions,
     name |-> authorInfo.name, email |-> authorInfo.email]

distributeFileContributions(commits, file) ==
    IF Len(commits) = 0
    THEN <<[user |-> "Unknown", additions |-> file.additions,
            deletions |-> file.deletions, name |-> "", email |-> ""]>>
    ELSE LET authors == AuthorsMap(commits)
             n == Len(authors)
             additionsPerAuthor == FloorDiv(file.additions, n)
             deletionsPerAuthor == FloorDiv(file.deletions, n)
         IN [i \in 1..n |->
                LegacyEntry(authors[i],
                    IF i = n THEN file.additions - additionsPerAuthor * (n - 1)
                    ELSE additionsPerAuthor,
                    IF i = n THEN file.deletions - deletionsPerAuthor * (n - 1)
                    ELSE deletionsPerAuthor)]

-----------------------------------------------------------------------------
(* Sums over a Map or a list of records *)

RECURSIVE SumSeq(_)
SumSeq(s) == IF s = <<>> THEN 0 ELSE Head(s) + SumSeq(Tail(s))

\* list.reduce((sum, x) => sum + x[field], 0)
SumOf(list, field) == SumSeq([i \in 1..Len(list) |-> list[i][field]])

-----------------------------------------------------------------------------
(* Exclusion predicates *)

\* micromatch.isMatch(filename, pattern) on the file names and patterns of
\* this model
GlobMatches == { <<"bun.lock", "*.lock">> }

shouldExcludeFile(filename, excludePatterns) ==
    \E i \in 1..Len(excludePatterns) : <<filename, excludePatterns[i]>> \in GlobMatches

\* commitMessage.includes(pattern): the patterns of this model are whole
\* words of the lines
Includes(commitMessage, pattern) ==
    \E i \in 1..Len(commitMessage) :
        \E j \in 1..Len(commitMessage[i]) : commitMessage[i][j] = pattern

shouldExcludeCommit(commitMessage, excludePatterns) ==
    \E i \in 1..Len(excludePatterns) : Includes(commitMessage, excludePatterns[i])

\* A variant that tests the username only
shouldExcludeUserByLoginOnly(user, name, email, options) == user \in options.excludeUsers

\* analyzer.ts lines 474-489
shouldExcludeUser(user, name, email, options) ==
    IF user \in options.excludeUsers THEN TRUE
    ELSE IF email # "" /\ email \in options.excludeEmails THEN TRUE
    ELSE FALSE

\* A variant that keeps every commit
filterCommitsKeepingAll(allCommits, options) == allCommits

filterCommits(allCommits, options) ==
    SelectSeq(allCommits,
              LAMBDA c : ~shouldExcludeCommit(c.message, options.excludeCommitMessages))

filterFiles(files, options) ==
    SelectSeq(files, LAMBDA f : ~shouldExcludeFile(f.filename, options.excludeFiles))

-----------------------------------------------------------------------------
(* Aggregator *)

\* A variant that stores the delta in place of the sum
mergeUserStatsReplacing(aggregatedStats, author, stats) ==
    MapSet(aggregatedStats, author,
           Entry(author, stats.additions, stats.deletions, stats.pairAdditions,
                 stats.pairDeletions, stats.name, stats.email))

\* A variant in which the last non-empty name and email win
mergeUserStatsLastWriter(aggregatedStats, author, stats) ==
    LET currentStats ==
            IF MapHas(aggregatedStats, author)
            THEN aggregatedStats[MapIndex(aggregatedStats, author)]
            ELSE Entry(author, 0, 0, 0, 0, stats.name, stats.email)
    IN MapSet(aggregatedStats, author,
              [currentStats EXCEPT
                  !.additions = @ + stats.additions,
                  !.deletions = @ + stats.deletions,
                  !.pairAdditions = @ + stats.pairAdditions,
                  !.pairDeletions = @ + stats.pairDeletions,
                  !.name = IF stats.name # "" THEN stats.name ELSE @,
                  !.email = IF stats.email # "" THEN stats.email ELSE @])

\* contributions.ts lines 35-59
mergeUserStats(aggregatedStats, author, stats) ==
    LET currentStats ==
            IF MapHas(aggregatedStats, author)
            THEN aggregatedStats[MapIndex(aggregatedStats, author)]
            ELSE Entry(author, 0, 0, 0, 0, stats.name, stats.email)
        summed == [currentStats EXCEPT
                      !.additions = @ + stats.additions,
                      !.deletions = @ + stats.deletions,
                      !.pairAdditions = @ + stats.pairAdditions,
                      !.pairDeletions = @ + stats.pairDeletions]
        named == IF summed.name = "" /\ stats.name # ""
                 THEN [summed EXCEPT !.name = stats.name] ELSE summed
        mailed == IF named.email = "" /\ stats.email # ""
                  THEN [named EXCEPT !.email = stats.email] ELSE named
    IN MapSet(aggregatedStats, author, mailed)

\* A run state as far as processFileContributions and its caller change it
RunState(stats, a, d, pa, pd) ==
    [stats |-> stats, totalAdditions |-> a, totalDeletions |-> d,
     totalPairAdditions |-> pa, totalPairDeletions |-> pd]

\* Loop of lines 116-125 from entry i on; acc = [stats, additionsIncluded,
\* deletionsIncluded]
RECURSIVE MergeIncluded(_, _, _, _)
MergeIncluded(userContributions, i, acc, options) ==
    IF i > Len(userContributions) THEN acc
    ELSE LET stats == userContributions[i]
         IN IF shouldExcludeUser(stats.user, stats.name, stats.email, options)
            THEN MergeIncluded(userContributions, i + 1, acc, options)
            ELSE MergeIncluded(userContributions, i + 1,
                     [stats |-> mergeUserStats(acc.stats, stats.user, stats),
                      additionsIncluded |-> acc.additionsIncluded + stats.additions,
                      deletionsIncluded |-> acc.deletionsIncluded + stats.deletions],
                     options)

\* Lines 116-131: what processFileContributions makes of the engine's output
MergeDistributed(distributed, aggregatedStats, options) ==
    LET merged == MergeIncluded(distributed.userContributions, 1,
                      [stats |-> aggregatedStats, additionsIncluded |-> 0,
                       deletionsIncluded |-> 0], options)
    IN [stats |-> merged.stats,
        additionsIncluded |-> merged.additionsIncluded,
        deletionsIncluded |-> merged.deletionsIncluded,
        pairAdditions |-> distributed.pairContributions.additions,
        pairDeletions |-> distributed.pairContributions.deletions]

processFileContributions(file, commits, aggregatedStats, options) ==
    MergeDistributed(
        distributeFileContributionsWithPairTracking(commits, file, options.aiEmails),
        aggregatedStats, options)

\* Lines 633-639: the run state after one file's result r
AddFileResult(rs, r) ==
    RunState(r.stats,
             rs.totalAdditions + r.additionsIncluded,
             rs.totalDeletions + r.deletionsIncluded,
             rs.totalPairAdditions + r.pairAdditions,
             rs.totalPairDeletions + r.pairDeletions)

\* Loop of lines 625-640 over the filtered files
RECURSIVE ProcessFiles(_, _, _, _)
ProcessFiles(filteredFiles, filteredCommits, rs, options) ==
    IF filteredFiles = <<>> THEN rs
    ELSE ProcessFiles(Tail(filteredFiles), filteredCommits,
             AddFileResult(rs, processFileContributions(Head(filteredFiles),
                                   filteredCommits, rs.stats, options)),
             options)

\* A variant that leaves out the files of a pull request none of whose
\* commits is left by filterCommits
AnalyzeFetchedDroppingCommitless(files, allCommits, rs, options) ==
    IF filterCommits(allCommits, options) = <<>> THEN rs
    ELSE ProcessFiles(filterFiles(files, options), filterCommits(allCommits, options),
                      rs, options)

\* Body of the try block of lines 610-640 once both fetches have returned
AnalyzeFetched(files, allCommits, rs, options) ==
    ProcessFiles(filterFiles(files, options), filterCommits(allCommits, options),
                 rs, options)

-----------------------------------------------------------------------------
(* Statistics finisher *)

\* Math.round((num / den) * 100) for den > 0: on the values of this model
\* (den < 40) the double-precision result is the exact quotient rounded
\* half up
\* A variant that truncates instead of rounding
RoundPercentTruncating(num, den) == (100 * num) \div den

RoundPercent(num, den) == (200 * num + den) \div (2 * den)

\* A variant without the zero fallback of the ternaries
PercentageUnguarded(num, den) == IF den > 0 THEN RoundPercent(num, den) ELSE 100

\* den > 0 ? Math.round((num / den) * 100) : 0
Percentage(num, den) == IF den > 0 THEN RoundPercent(num, den) ELSE 0

ToUserContribution(stats, totalEditLines) ==
    LET soloLines == stats.additions + stats.deletions
        pairLines == stats.pairAdditions + stats.pairDeletions
        userTotalLines == soloLines + pairLines
    IN [user |-> stats.user, name |-> stats.name, email |-> stats.email,
        additions |-> stats.additions, deletions |-> stats.deletions,
        pairAdditions |-> stats.pairAdditions, pairDeletions |-> stats.pairDeletions,
        totalLines |-> userTotalLines, pairLines |-> pairLines, soloLines |-> soloLines,
        percentage |-> Percentage(userTotalLines, totalEditLines),
        pairPercentage |-> Percentage(pairLines, userTotalLines),
        soloPercentage |-> Percentage(soloLines, userTotalLines)]

\* A variant whose insertion puts a record before the records it ties with
RECURSIVE InsertSortedTiesFirst(_, _)
InsertSortedTiesFirst(sorted, x) ==
    IF sorted = <<>> THEN <<x>>
    ELSE IF Head(sorted).totalLines > x.totalLines
         THEN <<Head(sorted)>> \o InsertSortedTiesFirst(Tail(sorted), x)
         ELSE <<x>> \o sorted

\* Array.prototype.sort((a, b) => b.totalLines - a.totalLines): stable,
\* descending by totalLines
RECURSIVE InsertSorted(_, _)
InsertSorted(sorted, x) ==
    IF sorted = <<>> THEN <<x>>
    ELSE IF Head(sorted).totalLines >= x.totalLines
         THEN <<Head(sorted)>> \o InsertSorted(Tail(sorted), x)
         ELSE <<x>> \o sorted

RECURSIVE SortByTotalLines(_, _)
SortByTotalLines(list, sorted) ==
    IF list = <<>> THEN sorted
    ELSE SortByTotalLines(Tail(list), InsertSorted(sorted, Head(list)))

convertToUserContributions(aggregatedStats, totalEditLines) ==
    SortByTotalLines([i \in 1..Len(aggregatedStats) |->
                         ToUserContribution(aggregatedStats[i], totalEditLines)], <<>>)

\* A variant whose buckets count the pair lines of their records too
calculateContributionStatsWithPair(userContributions, totalEditLines) ==
    LET sumAdditions == SumOf(userContributions, "additions")
                           + SumOf(userContributions, "pairAdditions")
        sumDeletions == SumOf(userContributions, "deletions")
                           + SumOf(userContributions, "pairDeletions")
        contributionEditLines == sumAdditions + sumDeletions
    IN [totalAdditions |-> sumAdditions,
        totalDeletions |-> sumDeletions,
        totalEditLines |-> contributionEditLines,
        percentage |-> Percentage(contributionEditLines, totalEditLines),
        peopleCount |-> Len(userContributions)]

\* contributions.ts lines 8-30
calculateContributionStats(userContributions, totalEditLines) ==
    LET sumAdditions == SumOf(userContributions, "additions")
        sumDeletions == SumOf(userContributions, "deletions")
        contributionEditLines == sumAdditions + sumDeletions
    IN [totalAdditions |-> sumAdditions,
        totalDeletions |-> sumDeletions,
        totalEditLines |-> contributionEditLines,
        percentage |-> Percentage(contributionEditLines, totalEditLines),
        peopleCount |-> Len(userContributions)]

\* allPrNumbers.sort((a, b) => a - b)
RECURSIVE InsertAscending(_, _)
InsertAscending(sorted, x) ==
    IF sorted = <<>> THEN <<x>>
    ELSE IF Head(sorted) <= x THEN <<Head(sorted)>> \o InsertAscending(Tail(sorted), x)
         ELSE <<x>> \o sorted

\* A variant that leaves the list in the order of discovery
Unsorted(list, sorted) == list

RECURSIVE SortAscending(_, _)
SortAscending(list, sorted) ==
    IF list = <<>> THEN sorted
    ELSE SortAscending(Tail(list), InsertAscending(sorted, Head(list)))

\* A variant that partitions by identity instead of by resolved email
IsAiContributorByIdentity(contrib, aiEmails) == contrib.user \in aiEmails

\* aiEmails.has(contrib.email || '') of lines 666-667
IsAiContributor(contrib, aiEmails) == contrib.email \in aiEmails

\* A variant that leaves the pair lines out of a returned total
TotalWithoutPair(individual, pair) == individual

\* totalAdditions + totalPairAdditions of lines 682-683
TotalWithPair(individual, pair) == individual + pair

\* Lines 658-690 of analyzePullRequestsCore
FinalResult(rs, prs, options) ==
    LET totalPairEditLines == rs.totalPairAdditions + rs.totalPairDeletions
        totalEditLines == rs.totalAdditions + rs.totalDeletions + totalPairEditLines
        userContributions == convertToUserContributions(rs.stats, totalEditLines)
        humanContribs ==
            SelectSeq(userContributions, LAMBDA c : ~IsAiContributor(c, options.aiEmails))
        aiContribs ==
            SelectSeq(userContributions, LAMBDA c : IsAiContributor(c, options.aiEmails))
    IN [totalAdditions |-> TotalWithPair(rs.totalAdditions, rs.totalPairAdditions),
        totalDeletions |-> TotalWithPair(rs.totalDeletions, rs.totalPairDeletions),
        totalEditLines |-> totalEditLines,
        userContributions |-> userContributions,
        humanContributions |-> calculateContributionStats(humanContribs, totalEditLines),
        aiContributions |-> calculateContributionStats(aiContribs, totalEditLines),
        pairContributions |->
            [totalAdditions |-> rs.totalPairAdditions,
             totalDeletions |-> rs.totalPairDeletions,
             totalEditLines |-> totalPairEditLines,
             percentage |-> Percentage(totalPairEditLines, totalEditLines),
             peopleCount |-> 0],
        allPrNumbers |-> SortAscending(prs, <<>>)]

\* analyzePullRequestsByDateRangeMultiRepo, analyzePullRequestsByNumbersMultiRepo
\* (lines 523-542, 551-568): { ...rest, totalPRs: allPrNumbers.length,
\* prNumbers: allPrNumbers } of the value the core returned
WithPrNumbers(core) ==
    [f \in (DOMAIN core \ { "allPrNumbers" }) \cup { "totalPRs", "prNumbers" } |->
        IF f = "totalPRs" THEN Len(core.allPrNumbers)
        ELSE IF f = "prNumbers" THEN core.allPrNumbers
        ELSE core[f]]

-----------------------------------------------------------------------------
(* Inputs of a run *)

Repositories == <<"r1", "r2">>

\* What getPRNumbersForRepo may return for each repository: the second
\* repository holds the smaller number, so that allPrNumbers needs its sort
PrNumberLists(repo) == IF repo = "r1" THEN { <<>>, <<7>> } ELSE { <<>>, <<3>> }

Alice == [login |-> "alice", name |-> "Alice", email |-> "alice@h"]
Bob == [login |-> "bob", name |-> "Bob", email |-> "bob@h"]
Bot == [login |-> "bot", name |-> "Bot", email |-> "bot@ai"]

\* A commit author GitHub resolved to no account and whose commit has no email
Carol == [login |-> "", name |-> "Carol", email |-> ""]

\* The account of Bob on a commit made with another address of his
BobAtWork == [login |-> "bob", name |-> "Bob", email |-> "bob@w"]

Commit(a, m) == [login |-> a.login, name |-> a.name, email |-> a.email, message |-> m]

RunCommits ==
    { Commit(Alice, <<TextLine("fix")>>),
      Commit(Bob, <<TextLine("fix")>>),
      Commit(Bob, <<TextLine("fix"), TrailerLine("Bot", "bot@ai")>>),
      Commit(Bot, <<TextLine("fix")>>),
      Commit(Carol, <<TextLine("fix")>>),
      Commit(BobAtWork, <<TextLine("fix")>>),
      Commit(Alice, <<TextLine("wip")>>) }

\* What pulls.listCommits may return for a pull request: up to two commits
RunCommitLists ==
    { <<>> } \cup { <<c>> : c \in RunCommits }
             \cup { <<c1, c2>> : c1 \in RunCommits, c2 \in RunCommits }

\* What pulls.listFiles may return for a pull request: at most one file
RunFileLists ==
    { <<>> } \cup { <<f>> : f \in Files }
             \cup { <<[filename |-> "bun.lock", additions |-> MaxAdd, deletions |-> MaxDel]>> }

Configs ==
    { [aiEmails |-> ai, excludeUsers |-> x[1], excludeEmails |-> x[2],
       excludeCommitMessages |-> x[3], excludeFiles |-> <<"*.lock">>] :
        ai \in { {}, {"bot@ai"} },
        x \in { <<{}, {}, <<"wip">>>>, <<{"bob"}, {}, <<"wip">>>>,
                <<{}, {"bob@h"}, <<"wip">>>>, <<{}, {}, <<>>>> } }

NoExclusion(options) == [options EXCEPT !.excludeUsers = {}, !.excludeEmails = {}]

NoResult == [totalEditLines |-> -1]

NoneFetched == [additions |-> 0, deletions |-> 0, commitless |-> 0, orphaned |-> 0]

-----------------------------------------------------------------------------
(* Idle values of the variables a specification does not use *)

NoOutput == [userContributions |-> <<>>,
             pairContributions |-> [additions |-> -1, deletions |-> -1]]

EngineIdle ==
    /\ inFile = [filename |-> "", additions |-> 0, deletions |-> 0]
    /\ inCommits = <<>>
    /\ inAi = {}
    /\ flags = <<>>
    /\ out = NoOutput

RunIdleButOptions ==
    /\ aggregatedUserStats = <<>>
    /\ totalAdditions = 0
    /\ totalDeletions = 0
    /\ totalPairAdditions = 0
    /\ totalPairDeletions = 0
    /\ allPrNumbers = <<>>
    /\ repoIdx = 0
    /\ prNumbers = <<>>
    /\ result = NoResult
    /\ baseRun = RunState(<<>>, 0, 0, 0, 0)
    /\ primaryIds = {}
    /\ aiAuthorSeen = FALSE
    /\ failed = FALSE
    /\ fetched = NoneFetched
    /\ discovered = <<>>

RunIdle ==
    /\ exclusionOptions = [aiEmails |-> {}, excludeUsers |-> {}, excludeEmails |-> {},
                           excludeCommitMessages |-> <<>>, excludeFiles |-> <<>>]
    /\ RunIdleButOptions

DiscoverIdle ==
    /\ closedPRs = <<>>
    /\ window = [startDate |-> 0, endDate |-> 0, tz |-> 0]
    /\ page = 0
    /\ prNumbersFound = <<>>
    /\ returned = <<>>

PipelineIdle ==
    /\ prFiles = <<>>
    /\ prCommits = <<>>
    /\ keptFiles = <<>>
    /\ keptCommits = <<>>
    /\ engineOut = <<>>
    /\ leftover = RunState(<<>>, 0, 0, 0, 0)
    /\ runs = <<>>

PoolIdle ==
    /\ counts = [additions |-> 0, deletions |-> 0, commits |-> 0, pairCommits |-> 0]
    /\ pools = [pairAdditions |-> 0, pairDeletions |-> 0,
                nonPairAdditions |-> 0, nonPairDeletions |-> 0]

MergeIdle ==
    /\ statsMap = <<>>
    /\ ledger = <<>>

ParseIdle ==
    /\ message = <<>>
    /\ parsed = <<>>

FlowIdle ==
    /\ stages = <<>>
    /\ mergeLog = <<>>

UnitsIdle == MergeIdle /\ ParseIdle /\ FlowIdle

-----------------------------------------------------------------------------
(* SpecEngine: the pure functions of the engine applied to bounded inputs *)

InitEngine ==
    /\ phase = "input"
    /\ inFile \in Files
    /\ inCommits \in SeqsUpTo(EngineCommits, MaxCommits)
    /\ inAi \in AiEmailSets
    /\ flags = <<>>
    /\ out = NoOutput
    /\ RunIdle
    /\ DiscoverIdle
    /\ PipelineIdle
    /\ PoolIdle
    /\ UnitsIdle

\* The classification loop of lines 166-177
Classify ==
    /\ phase = "input"
    /\ phase' = "classified"
    /\ flags' = [i \in 1..Len(inCommits) |->
                    isPairProgrammingCommit(inCommits[i].email,
                                            CoAuthorEmails(inCommits[i]), inAi)]
    /\ UNCHANGED <<inFile, inCommits, inAi, out>>
    /\ UNCHANGED notEngineVars

Distribute ==
    /\ phase = "classified"
    /\ phase' = "distributed"
    /\ out' = distributeFileContributionsWithPairTracking(inCommits, inFile, inAi)
    /\ UNCHANGED <<inFile, inCommits, inAi, flags>>
    /\ UNCHANGED notEngineVars

NextEngine == Classify \/ Distribute

SpecEngine == InitEngine /\ [][NextEngine]_vars

-----------------------------------------------------------------------------
(* Spec: one run of analyzePullRequestsCore *)

Init ==
    /\ phase = "repo"
    /\ exclusionOptions \in Configs
    /\ aggregatedUserStats = <<>>
    /\ totalAdditions = 0
    /\ totalDeletions = 0
    /\ totalPairAdditions = 0
    /\ totalPairDeletions = 0
    /\ allPrNumbers = <<>>
    /\ repoIdx = 1
    /\ prNumbers = <<>>
    /\ result = NoResult
    /\ baseRun = RunState(<<>>, 0, 0, 0, 0)
    /\ primaryIds = {}
    /\ aiAuthorSeen = FALSE
    /\ failed = FALSE
    /\ fetched = NoneFetched
    /\ discovered = <<>>
    /\ EngineIdle
    /\ DiscoverIdle
    /\ PipelineIdle
    /\ PoolIdle
    /\ UnitsIdle

CurrentRunState ==
    RunState(aggregatedUserStats, totalAdditions, totalDeletions,
             totalPairAdditions, totalPairDeletions)

\* getPRNumbersForRepo returns (lines 595-605)
DiscoverPRs ==
    /\ phase = "repo"
    /\ repoIdx <= Len(Repositories)
    /\ \E found \in PrNumberLists(Repositories[repoIdx]) :
          /\ IF Len(found) = 0
             THEN /\ repoIdx' = repoIdx + 1
                  /\ UNCHANGED <<phase, allPrNumbers, prNumbers>>
             ELSE /\ allPrNumbers' = allPrNumbers \o found
                  /\ prNumbers' = found
                  /\ phase' = "pr"
                  /\ UNCHANGED repoIdx
          /\ discovered' = Append(discovered, found)
    /\ UNCHANGED <<exclusionOptions, aggregatedUserStats, totalAdditions, totalDeletions,
                   totalPairAdditions, totalPairDeletions, result, baseRun, primaryIds,
                   aiAuthorSeen, failed, fetched>>
    /\ UNCHANGED notRunVars

\* getPRNumbersForRepo throws: the catch of lines 652-655
DiscoverFails ==
    /\ phase = "repo"
    /\ repoIdx <= Len(Repositories)
    /\ repoIdx' = repoIdx + 1
    /\ failed' = TRUE
    /\ UNCHANGED <<phase, exclusionOptions, aggregatedUserStats, totalAdditions,
                   totalDeletions, totalPairAdditions, totalPairDeletions, allPrNumbers,
                   prNumbers, result, baseRun, primaryIds, aiAuthorSeen, fetched,
                   discovered>>
    /\ UNCHANGED notRunVars

\* Leaving the pull-request loop of one repository
NextPR ==
    /\ prNumbers' = Tail(prNumbers)
    /\ IF Len(prNumbers) = 1
       THEN phase' = "repo" /\ repoIdx' = repoIdx + 1
       ELSE UNCHANGED <<phase, repoIdx>>

\* The run state rs written back to the variables of the run
SetRun(rs) ==
    /\ aggregatedUserStats' = rs.stats
    /\ totalAdditions' = rs.totalAdditions
    /\ totalDeletions' = rs.totalDeletions
    /\ totalPairAdditions' = rs.totalPairAdditions
    /\ totalPairDeletions' = rs.totalPairDeletions

\* The identities the engine takes as primary authors (lines 189-198, 241-250)
\* and whether one of them is an AI address, recorded when the engine ran
RecordAuthors(engineRan, filteredCommits) ==
    /\ primaryIds' =
          IF ~engineRan THEN primaryIds
          ELSE IF filteredCommits = <<>> THEN primaryIds \cup {"Unknown"}
          ELSE primaryIds \cup
                  { AuthorOf(filteredCommits[i]) : i \in 1..Len(filteredCommits) }
    /\ aiAuthorSeen' =
          (aiAuthorSeen \/
             (engineRan /\ \E i \in 1..Len(filteredCommits) :
                  filteredCommits[i].email \in exclusionOptions.aiEmails))

\* The lines of the files left by filterFiles (line 622), added up over the
\* pull requests; those of them met with no commit left by filterCommits
\* (commitless), and those of these whose pull request had commits (orphaned)
FetchedAfter(filteredFiles, filteredCommits, allCommits) ==
    LET lines == SumOf(filteredFiles, "additions") + SumOf(filteredFiles, "deletions")
    IN [additions |-> fetched.additions + SumOf(filteredFiles, "additions"),
        deletions |-> fetched.deletions + SumOf(filteredFiles, "deletions"),
        commitless |-> fetched.commitless + IF filteredCommits = <<>> THEN lines ELSE 0,
        orphaned |-> fetched.orphaned
                        + IF filteredCommits = <<>> /\ allCommits # <<>> THEN lines ELSE 0]

\* One iteration of the loop of lines 606-648 whose two fetches return one
\* of fileLists and one of commitLists
AnalyzePRFrom(fileLists, commitLists) ==
    /\ phase = "pr"
    /\ prNumbers # <<>>
    /\ \E files \in fileLists, allCommits \in commitLists :
          /\ SetRun(AnalyzeFetched(files, allCommits, CurrentRunState, exclusionOptions))
          /\ baseRun' = AnalyzeFetched(files, allCommits, baseRun,
                                       NoExclusion(exclusionOptions))
          /\ RecordAuthors(filterFiles(files, exclusionOptions) # <<>>,
                           filterCommits(allCommits, exclusionOptions))
          /\ fetched' = FetchedAfter(filterFiles(files, exclusionOptions),
                                     filterCommits(allCommits, exclusionOptions),
                                     allCommits)
    /\ NextPR
    /\ UNCHANGED <<exclusionOptions, allPrNumbers, result, failed, discovered>>
    /\ UNCHANGED notRunVars

AnalyzePR == AnalyzePRFrom(RunFileLists, RunCommitLists)

\* A variant in which the exception of a fetch is not caught: the run ends
\* there without a result
AnalyzePRFailsAborting ==
    /\ phase = "pr"
    /\ prNumbers # <<>>
    /\ phase' = "aborted"
    /\ failed' = TRUE
    /\ UNCHANGED <<exclusionOptions, aggregatedUserStats, totalAdditions, totalDeletions,
                   totalPairAdditions, totalPairDeletions, allPrNumbers, repoIdx,
                   prNumbers, result, baseRun, primaryIds, aiAuthorSeen, fetched,
                   discovered>>
    /\ UNCHANGED notRunVars

\* One iteration whose listFiles or listCommits call throws: the catch of
\* lines 641-643
AnalyzePRFails ==
    /\ phase = "pr"
    /\ prNumbers # <<>>
    /\ NextPR
    /\ failed' = TRUE
    /\ UNCHANGED <<exclusionOptions, aggregatedUserStats, totalAdditions, totalDeletions,
                   totalPairAdditions, totalPairDeletions, allPrNumbers, result, baseRun,
                   primaryIds, aiAuthorSeen, fetched, discovered>>
    /\ UNCHANGED notRunVars

\* Lines 658-690: the repository loop is over, the core returns and its
\* caller returns (lines 536-542)
Finish ==
    /\ phase = "repo"
    /\ repoIdx > Len(Repositories)
    /\ phase' = "done"
    /\ result' = WithPrNumbers(FinalResult(CurrentRunState, allPrNumbers,
                                           exclusionOptions))
    /\ UNCHANGED <<exclusionOptions, aggregatedUserStats, totalAdditions, totalDeletions,
                   totalPairAdditions, totalPairDeletions, allPrNumbers, repoIdx,
                   prNumbers, baseRun, primaryIds, aiAuthorSeen, failed, fetched,
                   discovered>>
    /\ UNCHANGED notRunVars

Next ==
    \/ DiscoverPRs
    \/ DiscoverFails
    \/ AnalyzePR
    \/ AnalyzePRFails
    \/ Finish

Spec == Init /\ [][Next]_vars

\* Every await of the two loops settles (it returns or throws), so the run
\* keeps taking steps while one is possible.
FairFileLists ==
    { <<>>, <<[filename |-> "a.ts", additions |-> MaxAdd, deletions |-> MaxDel]>> }

FairCommitLists ==
    { <<>>,
      <<Commit(Alice, <<TextLine("fix")>>)>>,
      <<Commit(Bob, <<TextLine("fix"), TrailerLine("Bot", "bot@ai")>>),
        Commit(Carol, <<TextLine("fix")>>)>> }

AnalyzePRFair == AnalyzePRFrom(FairFileLists, FairCommitLists)

NextFair ==
    \/ DiscoverPRs
    \/ DiscoverFails
    \/ AnalyzePRFair
    \/ AnalyzePRFails
    \/ Finish

\* The run over fewer fetched values, with the progress its sequential
\* awaits give it
FairSpec == Init /\ [][NextFair]_vars /\ WF_vars(NextFair)

-----------------------------------------------------------------------------
(* SpecPipeline: the attribution pipeline on the files and commits fetched *)
(* for one pull request, run twice on the same inputs                      *)

\* A variant in which a run starts from what the previous run left behind
CarriedState(previous) == previous

\* Lines 583-587: every run starts from totals of 0 and a Map of its own
StartState(previous) == RunState(<<>>, 0, 0, 0, 0)

InitPipeline ==
    /\ phase = "fetched"
    /\ prFiles \in RunFileLists
    /\ prCommits \in RunCommitLists
    /\ exclusionOptions \in Configs
    /\ keptFiles = <<>>
    /\ keptCommits = <<>>
    /\ engineOut = <<>>
    /\ leftover = RunState(<<>>, 0, 0, 0, 0)
    /\ runs = <<>>
    /\ RunIdleButOptions
    /\ EngineIdle
    /\ DiscoverIdle
    /\ PoolIdle
    /\ UnitsIdle

\* Lines 623-624
FilterFetched ==
    /\ phase = "fetched"
    /\ phase' = "filtered"
    /\ keptCommits' = filterCommits(prCommits, exclusionOptions)
    /\ keptFiles' = filterFiles(prFiles, exclusionOptions)
    /\ UNCHANGED <<prFiles, prCommits, engineOut, leftover, runs>>
    /\ UNCHANGED notPipelineVars

\* Lines 625-640 and 658-690 over the filtered files and commits; engineOut
\* is what line 106 of contributions.ts receives from the engine for each file
RunPipeline ==
    /\ phase = "filtered"
    /\ Len(runs) < 2
    /\ leftover' = ProcessFiles(keptFiles, keptCommits, StartState(leftover),
                                exclusionOptions)
    /\ runs' = Append(runs, FinalResult(leftover', <<>>, exclusionOptions))
    /\ engineOut' = [i \in 1..Len(keptFiles) |->
                        distributeFileContributionsWithPairTracking(
                            keptCommits, keptFiles[i], exclusionOptions.aiEmails)]
    /\ UNCHANGED <<phase, prFiles, prCommits, keptFiles, keptCommits>>
    /\ UNCHANGED notPipelineVars

NextPipeline == FilterFetched \/ RunPipeline

SpecPipeline == InitPipeline /\ [][NextPipeline]_vars

-----------------------------------------------------------------------------
(* SpecPool: the sizes of the two pools of a file, from the number of its  *)
(* commits and of its pair commits                                         *)

CountsOf(n) ==
    [additions : 0..MaxPoolLines, deletions : 0..MaxPoolDel, commits : {n},
     pairCommits : 0..n]

InitPool ==
    /\ phase = "counted"
    /\ counts \in UNION { CountsOf(n) : n \in 1..MaxPoolCommits }
    /\ pools = [pairAdditions |-> 0, pairDeletions |-> 0,
                nonPairAdditions |-> 0, nonPairDeletions |-> 0]
    /\ EngineIdle
    /\ RunIdle
    /\ DiscoverIdle
    /\ PipelineIdle
    /\ UnitsIdle

\* Lines 180-183
ComputePairPool ==
    /\ phase = "counted"
    /\ phase' = "pair"
    /\ pools' = [pools EXCEPT
          !.pairAdditions = PairPoolLines(counts.additions, counts.pairCommits, counts.commits),
          !.pairDeletions = PairPoolLines(counts.deletions, counts.pairCommits, counts.commits)]
    /\ UNCHANGED counts
    /\ UNCHANGED notPoolVars

\* Lines 236-237
ComputeNonPairPool ==
    /\ phase = "pair"
    /\ phase' = "pooled"
    /\ pools' = [pools EXCEPT
          !.nonPairAdditions = counts.additions - pools.pairAdditions,
          !.nonPairDeletions = counts.deletions - pools.pairDeletions]
    /\ UNCHANGED counts
    /\ UNCHANGED notPoolVars

NextPool == ComputePairPool \/ ComputeNonPairPool

SpecPool == InitPool /\ [][NextPool]_vars

-----------------------------------------------------------------------------
(* SpecDiscover: findPRsByDateRange over one repository *)

\* Time is counted in half days since some midnight UTC: day d runs over the
\* instants 2 * d and 2 * d + 1.  The time zone of the process is its offset
\* from UTC in half days.
TimeZones == { -1, 0, 1 }

\* The merge times of the model: the days 1..MaxDay and a half day around them
Instants == 1 .. (2 * MaxDay + 2)

\* new Date(startDate) of a date-only string: midnight UTC of that day
StartOf(startDate) == 2 * startDate

\* new Date(endDate) followed by setHours(23, 59, 59, 999), which sets the
\* local clock: the last instant of the local day that midnight UTC of
\* endDate falls in
EndOf(endDate, tz) ==
    LET localMidnight == 2 * endDate + tz
        localDay == localMidnight \div 2
    IN (2 * localDay + 1) - tz

perPage == 100

\* response.data of pulls.list for one page
PageOf(list, p) ==
    SubSeq(list, (p - 1) * perPage + 1,
           IF p * perPage < Len(list) THEN p * perPage ELSE Len(list))

\* The for loop of lines 741-758 from the i-th pull request of the page on
RECURSIVE ScanPage(_, _, _, _)
ScanPage(prs, i, found, w) ==
    IF i > Len(prs) THEN [prNumbers |-> found, foundOlderPR |-> FALSE]
    ELSE LET pr == prs[i]
             start == StartOf(w.startDate)
             end == EndOf(w.endDate, w.tz)
         IN IF ~pr.merged THEN ScanPage(prs, i + 1, found, w)
            ELSE IF pr.merged_at >= start /\ pr.merged_at <= end
                 THEN ScanPage(prs, i + 1, Append(found, pr.number), w)
            ELSE IF pr.merged_at < start
                 THEN [prNumbers |-> found, foundOlderPR |-> TRUE]
            ELSE ScanPage(prs, i + 1, found, w)

\* merged_at of a closed pull request: null, or an instant
MergeStates ==
    { [merged |-> FALSE, merged_at |-> 0] }
        \cup { [merged |-> TRUE, merged_at |-> t] : t \in Instants }

\* The orders in which up to MaxPRs pull requests of distinct numbers can be
\* listed
NumberOrders ==
    { o \in SeqsUpTo(1..MaxPRs, MaxPRs) :
        \A i, j \in 1..Len(o) : i # j => o[i] # o[j] }

ClosedPRLists ==
    UNION { { [i \in 1..Len(o) |->
                  [number |-> o[i], merged |-> m[i].merged, merged_at |-> m[i].merged_at]] :
              m \in [1..Len(o) -> MergeStates] } : o \in NumberOrders }

Windows ==
    { [startDate |-> a, endDate |-> b, tz |-> z] :
        a \in 1..MaxDay, b \in 1..MaxDay, z \in TimeZones }

InitDiscover ==
    /\ phase = "list"
    /\ closedPRs \in ClosedPRLists
    /\ window \in { w \in Windows : w.startDate <= w.endDate }
    /\ page = 1
    /\ prNumbersFound = <<>>
    /\ returned = <<>>
    /\ EngineIdle
    /\ RunIdle
    /\ PipelineIdle
    /\ PoolIdle
    /\ UnitsIdle

\* One turn of the while loop of lines 720-765
FetchPage ==
    /\ phase = "list"
    /\ LET prs == PageOf(closedPRs, page)
           scan == ScanPage(prs, 1, prNumbersFound, window)
       IN IF Len(prs) = 0
          THEN /\ phase' = "sort"
               /\ UNCHANGED <<page, prNumbersFound>>
          ELSE /\ prNumbersFound' = scan.prNumbers
               /\ IF scan.foundOlderPR \/ Len(prs) < perPage
                  THEN phase' = "sort" /\ UNCHANGED page
                  ELSE page' = page + 1 /\ UNCHANGED phase
    /\ UNCHANGED <<closedPRs, window, returned>>
    /\ UNCHANGED notDiscoverVars

\* return prNumbers.sort((a, b) => a - b) of line 768
ReturnFound ==
    /\ phase = "sort"
    /\ phase' = "returned"
    /\ returned' = SortAscending(prNumbersFound, <<>>)
    /\ UNCHANGED <<closedPRs, window, page, prNumbersFound>>
    /\ UNCHANGED notDiscoverVars

NextDiscover == FetchPage \/ ReturnFound

SpecDiscover == InitDiscover /\ [][NextDiscover]_vars

-----------------------------------------------------------------------------
(* SpecMerge: calls of mergeUserStats on one Map *)

MaxMerges == 3

MergeIdentities == { "bob", "Unknown" }

\* The deltas handed to mergeUserStats: every counter is zero in one and
\* positive in another, and name and email are empty, one value or another
MergeCounts == { <<0, 0, 0, 0>>, <<2, 1, 0, 0>>, <<0, 0, 1, 1>>, <<1, 0, 2, 0>> }
MergeNames == { "", "Bob", "Robert" }
MergeEmails == { "", "bob@h" }

InitMerge ==
    /\ phase = "merging"
    /\ statsMap = <<>>
    /\ ledger = <<>>
    /\ EngineIdle
    /\ RunIdle
    /\ DiscoverIdle
    /\ PipelineIdle
    /\ PoolIdle
    /\ ParseIdle
    /\ FlowIdle

\* One call mergeUserStats(statsMap, author, stats)
Merge ==
    /\ phase = "merging"
    /\ Len(ledger) < MaxMerges
    /\ \E author \in MergeIdentities, c \in MergeCounts,
          name \in MergeNames, email \in MergeEmails :
          LET stats == Entry(author, c[1], c[2], c[3], c[4], name, email)
          IN /\ statsMap' = mergeUserStats(statsMap, author, stats)
             /\ ledger' = Append(ledger, stats)
    /\ UNCHANGED phase
    /\ UNCHANGED notMergeVars

NextMerge == Merge

SpecMerge == InitMerge /\ [][NextMerge]_vars

-----------------------------------------------------------------------------
(* SpecParse: parseCoAuthors on the messages of a few lines *)

MaxLines == 3

\* The lines a message is made of: free text, an empty line, complete
\* trailers, trailers without name, without email or with neither, another
\* trailer kind, an indented trailer, a trailer followed by text, a trailer
\* written without spaces and followed by one, an address alone, and a
\* trailer with two bracketed parts
ParseLines ==
    { <<"fix">>,
      <<>>,
      TrailerLine("Alice", "alice@h"),
      TrailerLine("Bot", "bot@ai"),
      TrailerLine("", "bot@ai"),
      TrailerLine("Alice", ""),
      <<Label, " ">>,
      <<"Reported-by:", " ", "Bob", " ", "<", "bob@h", ">">>,
      <<" ">> \o TrailerLine("Alice", "alice@h"),
      TrailerLine("Alice", "alice@h") \o <<" ", "x">>,
      <<Label, "Bot", "<", "bot@ai", ">", " ">>,
      <<"<", "bob@h", ">">>,
      <<Label, " ", "Alice", " ", "<", "x", ">", " ", "<", "alice@h", ">">> }

ParseMessages == SeqsUpTo(ParseLines, MaxLines)

InitParse ==
    /\ phase = "message"
    /\ message \in ParseMessages
    /\ parsed = <<>>
    /\ EngineIdle
    /\ RunIdle
    /\ DiscoverIdle
    /\ PipelineIdle
    /\ PoolIdle
    /\ MergeIdle
    /\ FlowIdle

\* const coAuthors = parseCoAuthors(commit.commit.message)
Parse ==
    /\ phase = "message"
    /\ parsed' = parseCoAuthors(message)
    /\ phase' = "parsed"
    /\ UNCHANGED message
    /\ UNCHANGED notParseVars

NextParse == Parse

SpecParse == InitParse /\ [][NextParse]_vars

-----------------------------------------------------------------------------
(* SpecFlow: the awaits of analyzePullRequestsCore.  The work of a run is   *)
(* a list of items in program order: for each repository its discovery     *)
(* (pr = 0) and then its pull requests.  A step is what runs between two    *)
(* awaits.                                                                  *)

FlowRepos == 2
MaxFlowPRs == 2
MaxFlowFiles == 2

FlowItems ==
    [i \in 1..(FlowRepos * (MaxFlowPRs + 1)) |->
        [repo |-> ((i - 1) \div (MaxFlowPRs + 1)) + 1, pr |-> (i - 1) % (MaxFlowPRs + 1)]]

\* An awaited call of the item is pending
InFlight(i) == stages[i] \in { "discovering", "files", "commits" }

\* The loop is through with the item
Settled(i) == stages[i] \in { "done", "failed", "skipped" }

\* A variant in which the calls of the items are started one after another
\* without awaiting the ones started before
StartedInOrder(i) == \A j \in 1..(i - 1) : stages[j] # "waiting"

\* Control reaches item i: every await of the items before it has resumed
\* and their loop bodies have run to their end (lines 590, 595, 605-648)
Awaited(i) == \A j \in 1..(i - 1) : Settled(j)

InitFlow ==
    /\ phase = "flow"
    /\ stages = [i \in 1..Len(FlowItems) |-> "waiting"]
    /\ mergeLog = <<>>
    /\ EngineIdle
    /\ RunIdle
    /\ DiscoverIdle
    /\ PipelineIdle
    /\ PoolIdle
    /\ MergeIdle
    /\ ParseIdle

FlowUnchanged == UNCHANGED phase /\ UNCHANGED notFlowVars

\* await getPRNumbersForRepo (line 595) or await pulls.listFiles (line 610)
\* is entered
Begin ==
    /\ \E i \in 1..Len(FlowItems) :
          /\ stages[i] = "waiting"
          /\ Awaited(i)
          /\ stages' = [stages EXCEPT
                           ![i] = IF FlowItems[i].pr = 0 THEN "discovering" ELSE "files"]
    /\ UNCHANGED mergeLog
    /\ FlowUnchanged

\* getPRNumbersForRepo returns n pull requests (lines 595-603): the loop
\* will run for these and for no other of the repository
DiscoveryReturns ==
    /\ \E i \in 1..Len(FlowItems), n \in 0..MaxFlowPRs :
          /\ stages[i] = "discovering"
          /\ stages' = [j \in 1..Len(FlowItems) |->
                          IF j = i THEN "done"
                          ELSE IF FlowItems[j].repo = FlowItems[i].repo
                                  /\ FlowItems[j].pr > n THEN "skipped"
                          ELSE stages[j]]
    /\ UNCHANGED mergeLog
    /\ FlowUnchanged

\* getPRNumbersForRepo throws (lines 652-655)
DiscoveryThrows ==
    /\ \E i \in 1..Len(FlowItems) :
          /\ stages[i] = "discovering"
          /\ stages' = [j \in 1..Len(FlowItems) |->
                          IF j = i THEN "failed"
                          ELSE IF FlowItems[j].repo = FlowItems[i].repo THEN "skipped"
                          ELSE stages[j]]
    /\ UNCHANGED mergeLog
    /\ FlowUnchanged

\* pulls.listFiles returns and await getPRCommits is entered (lines 610-620)
FilesReturn ==
    /\ \E i \in 1..Len(FlowItems) :
          /\ stages[i] = "files"
          /\ stages' = [stages EXCEPT ![i] = "commits"]
    /\ UNCHANGED mergeLog
    /\ FlowUnchanged

\* getPRCommits returns: the two filters and the loop over the k filtered
\* files with its merges run to the end of the body (lines 620-640), which
\* holds no await
CommitsReturn ==
    /\ \E i \in 1..Len(FlowItems), k \in 0..MaxFlowFiles :
          /\ stages[i] = "commits"
          /\ stages' = [stages EXCEPT ![i] = "done"]
          /\ mergeLog' = mergeLog \o [f \in 1..k |-> i]
    /\ FlowUnchanged

\* pulls.listFiles or getPRCommits throws (lines 641-643)
FetchThrows ==
    /\ \E i \in 1..Len(FlowItems) :
          /\ stages[i] \in { "files", "commits" }
          /\ stages' = [stages EXCEPT ![i] = "failed"]
    /\ UNCHANGED mergeLog
    /\ FlowUnchanged

NextFlow ==
    \/ Begin
    \/ DiscoveryReturns
    \/ DiscoveryThrows
    \/ FilesReturn
    \/ CommitsReturn
    \/ FetchThrows

SpecFlow == InitFlow /\ [][NextFlow]_vars

-----------------------------------------------------------------------------
(* Properties *)

Records == result.userContributions
SumPercentages == SumOf(Records, "percentage")
SumTotalLines == SumOf(Records, "totalLines")
BucketPercentages ==
    result.humanContributions.percentage + result.aiContributions.percentage
        + result.pairContributions.percentage

\* C1: sum preservation per file.  For a non-empty commit list the map
\* returned by the distribution engine attributes, over all identities,
\* additions + pairAdditions summing to file.additions and deletions +
\* pairDeletions summing to file.deletions.
C1_SumPreservation ==
    (phase = "distributed" /\ Len(inCommits) > 0) =>
        /\ (SumOf(out.userContributions, "additions") + SumOf(out.userContributions, "pairAdditions"))
              = inFile.additions
        /\ (SumOf(out.userContributions, "deletions") + SumOf(out.userContributions, "pairDeletions"))
              = inFile.deletions

\* A file with an odd number of additions split over a pair pool and a
\* non-pair pool held by two identities
C1_Witness ==
    /\ phase = "distributed"
    /\ inFile.additions = 3
    /\ out.pairContributions.additions > 0
    /\ Len(out.userContributions) = 2
    /\ \E i \in 1..2 : out.userContributions[i].additions > 0

\* C2: the run totals are the sums over the contributor records of the
\* result: totalAdditions = sum of additions + pairAdditions, totalDeletions
\* = sum of deletions + pairDeletions, totalEditLines = sum of totalLines.
C2_TotalsAreRecordSums ==
    phase = "done" =>
        /\ result.totalAdditions
              = (SumOf(Records, "additions") + SumOf(Records, "pairAdditions"))
        /\ result.totalDeletions
              = (SumOf(Records, "deletions") + SumOf(Records, "pairDeletions"))
        /\ result.totalEditLines = SumTotalLines

\* What the run without contributor exclusion attributed to the contributors
\* that exclusionOptions excludes
Excluded(stats) ==
    SelectSeq(stats, LAMBDA st : shouldExcludeUser(st.user, st.name, st.email, exclusionOptions))

\* C3: exclusion removes totals.  Against the run on the same inputs that
\* excludes nobody, the totals of a run that excludes one contributor are
\* lower by exactly the additions and deletions (individual and pair) the
\* other run attributed to that contributor.
C3_ExclusionReducesTotals ==
    (phase = "done"
        /\ Cardinality(exclusionOptions.excludeUsers)
             + Cardinality(exclusionOptions.excludeEmails) = 1) =>
        /\ result.totalAdditions
              = baseRun.totalAdditions + baseRun.totalPairAdditions
                  - (SumOf(Excluded(baseRun.stats), "additions") + SumOf(Excluded(baseRun.stats), "pairAdditions"))
        /\ result.totalDeletions
              = baseRun.totalDeletions + baseRun.totalPairDeletions
                  - (SumOf(Excluded(baseRun.stats), "deletions") + SumOf(Excluded(baseRun.stats), "pairDeletions"))

C5_SingleContributor ==
    (phase = "done" /\ result.totalEditLines > 0 /\ Len(Records) <= 1) =>
        SumPercentages = 100

C7_ZeroDenominator ==
    phase = "done" =>
        /\ result.totalEditLines = 0 =>
              /\ \A i \in 1..Len(Records) :
                    /\ Records[i].percentage = 0
                    /\ Records[i].pairPercentage = 0
                    /\ Records[i].soloPercentage = 0
              /\ result.humanContributions.percentage = 0
              /\ result.aiContributions.percentage = 0
              /\ result.pairContributions.percentage = 0
        /\ \A i \in 1..Len(Records) :
              Records[i].totalLines = 0 =>
                  (Records[i].pairPercentage = 0 /\ Records[i].soloPercentage = 0)

\* A run that ends with contributor records and no edited line at all
C7_Witness ==
    /\ phase = "done"
    /\ result.totalEditLines = 0
    /\ Len(Records) >= 1

\* The non-empty emails of the author and the parsed co-authors of a commit
EmailsOf(commit) ==
    LET coAuthors == parseCoAuthors(commit.message)
    IN ({commit.email} \cup { coAuthors[j].email : j \in 1..Len(coAuthors) }) \ {""}

\* C8: pair classification.  isPairProgrammingCommit is true exactly when
\* the non-empty emails of author and co-authors hold a member of aiEmails
\* and a non-member; so it is false with fewer than two distinct emails.
C8_PairClassification ==
    phase \in {"classified", "distributed"} =>
        \A i \in 1..Len(inCommits) :
            LET emails == EmailsOf(inCommits[i])
            IN /\ flags[i] = ((\E e \in emails : e \in inAi) /\ (\E e \in emails : e \notin inAi))
               /\ Cardinality(emails) < 2 => ~flags[i]

\* A pair commit next to a commit without author email whose only email is
\* the AI co-author's
C8_Witness ==
    /\ phase = "classified"
    /\ Len(inCommits) = 2
    /\ flags[1]
    /\ inCommits[2].email = ""
    /\ EmailsOf(inCommits[2]) = {"bot@ai"}
    /\ "bot@ai" \in inAi

\* C9: co-authors are never credited.  Every contributor identity is the
\* resolved primary-author identity of a commit handed to the engine
\* ('Unknown' for an empty list); when no primary author has an AI email the
\* AI bucket is all zero and the pair bucket holds the pair lines.
C9_CoAuthorsNotCredited ==
    phase = "done" =>
        /\ \A i \in 1..Len(Records) : Records[i].user \in primaryIds
        /\ ~aiAuthorSeen =>
              /\ result.aiContributions.totalAdditions = 0
              /\ result.aiContributions.totalDeletions = 0
              /\ result.aiContributions.totalEditLines = 0
              /\ result.aiContributions.peopleCount = 0
              /\ result.pairContributions.totalAdditions = totalPairAdditions
              /\ result.pairContributions.totalDeletions = totalPairDeletions
              /\ result.pairContributions.totalEditLines
                    = totalPairAdditions + totalPairDeletions

\* A run whose only AI email is a co-author's and that has pair lines
C9_Witness ==
    /\ phase = "done"
    /\ ~aiAuthorSeen
    /\ exclusionOptions.aiEmails # {}
    /\ result.pairContributions.totalEditLines > 0
    /\ result.aiContributions.peopleCount = 0

\* C10: without AI emails everything is human: the pair bucket is all zero,
\* the AI bucket has no lines, percentage or people, and the human bucket
\* has all edit lines, all contributor records and, when totalEditLines > 0,
\* percentage 100.
C10_NoAiAllHuman ==
    (phase = "done" /\ exclusionOptions.aiEmails = {}) =>
        /\ result.pairContributions.totalAdditions = 0
        /\ result.pairContributions.totalDeletions = 0
        /\ result.pairContributions.totalEditLines = 0
        /\ result.pairContributions.percentage = 0
        /\ result.pairContributions.peopleCount = 0
        /\ result.aiContributions.totalEditLines = 0
        /\ result.aiContributions.percentage = 0
        /\ result.aiContributions.peopleCount = 0
        /\ result.humanContributions.totalEditLines = result.totalEditLines
        /\ result.humanContributions.peopleCount = Len(Records)
        /\ result.totalEditLines > 0 => result.humanContributions.percentage = 100

\* A run without AI emails over commits of several authors
C10_Witness ==
    /\ phase = "done"
    /\ exclusionOptions.aiEmails = {}
    /\ result.totalEditLines > 0
    /\ Len(Records) >= 2
    /\ \E i \in 1..Len(Records) : Records[i].email = "bot@ai"

\* The contributor records whose resolved email is, or is not, in aiEmails
AiRecords == SelectSeq(Records, LAMBDA r : r.email \in exclusionOptions.aiEmails)
HumanRecords == SelectSeq(Records, LAMBDA r : r.email \notin exclusionOptions.aiEmails)

C12_EditLinesAreAdditionsPlusDeletions ==
    phase = "done" =>
        /\ result.totalEditLines = result.totalAdditions + result.totalDeletions
        /\ result.totalAdditions = totalAdditions + totalPairAdditions
        /\ result.totalDeletions = totalDeletions + totalPairDeletions

\* A result with individual and pair lines among additions and deletions
C12_Witness ==
    /\ phase = "done"
    /\ totalPairAdditions > 0
    /\ totalPairDeletions > 0
    /\ totalAdditions > 0
    /\ totalDeletions > 0

\* The aggregation map and the four running totals
Accumulated ==
    <<aggregatedUserStats, totalAdditions, totalDeletions, totalPairAdditions,
      totalPairDeletions>>

\* C13: partial-failure tolerance.  A step in which the fetch of a pull
\* request's files or commits throws, or in which the discovery of a
\* repository's pull requests throws, leaves the aggregation map and the
\* four running totals as they were and moves on to the next pull request or
\* repository; the run never aborts: it always ends by returning a result.
C13_PartialFailureTolerance ==
    /\ [][AnalyzePRFails =>
              (UNCHANGED Accumulated /\ prNumbers' = Tail(prNumbers)
                 /\ phase' \in {"pr", "repo"})]_vars
    /\ [][DiscoverFails =>
              (UNCHANGED Accumulated /\ repoIdx' = repoIdx + 1 /\ phase' = "repo")]_vars
    /\ <>(phase = "done")

\* A run that returned the lines of one pull request although a fetch or a
\* discovery failed
C13_Witness ==
    /\ phase = "done"
    /\ failed
    /\ Len(allPrNumbers) = 2
    /\ result.totalEditLines > 0
    /\ Len(Records) >= 1

\* The numbers of the pull requests merged from the start of startDate to
\* the end of endDate
MergedInWindow ==
    { closedPRs[i].number : i \in { j \in 1..Len(closedPRs) :
          /\ closedPRs[j].merged
          /\ closedPRs[j].merged_at >= 2 * window.startDate
          /\ closedPRs[j].merged_at <= 2 * window.endDate + 1 } }

\* C14: date-range discovery is exact.  findPRsByDateRange returns, in
\* ascending order, exactly the numbers of the pull requests merged from
\* startDate to the end of the day endDate, whatever the order in which the
\* closed pull requests were last updated.
C14_DateRangeExact ==
    phase = "returned" =>
        /\ { returned[i] : i \in 1..Len(returned) } = MergedInWindow
        /\ \A i \in 1..(Len(returned) - 1) : returned[i] < returned[i + 1]

\* Whether a commit / a file is one that exclusionOptions excludes
IsExcludedCommit(commit) ==
    \E k \in 1..Len(exclusionOptions.excludeCommitMessages) :
        \E l \in 1..Len(commit.message) :
            \E j \in 1..Len(commit.message[l]) :
                commit.message[l][j] = exclusionOptions.excludeCommitMessages[k]

IsExcludedFile(file) ==
    \E k \in 1..Len(exclusionOptions.excludeFiles) :
        <<file.filename, exclusionOptions.excludeFiles[k]>> \in GlobMatches

\* The pair commits among the commits the engine was given
KeptPairCommits ==
    { i \in 1..Len(keptCommits) : IsPairCommit(keptCommits[i], exclusionOptions.aiEmails) }

\* C15: excluded commits and files never enter the engine.  No commit given
\* to the engine carries an excluded message and no file given to it matches
\* an excluded glob; the engine is called once per remaining file, its pair
\* ratio counts the remaining commits only, it credits only authors of
\* remaining commits, and the run totals hold no line of an excluded file.
C15_ExcludedNeverEnterEngine ==
    phase = "filtered" =>
        /\ \A i \in 1..Len(keptCommits) : ~IsExcludedCommit(keptCommits[i])
        /\ \A i \in 1..Len(keptFiles) : ~IsExcludedFile(keptFiles[i])
        /\ Len(runs) >= 1 =>
              /\ Len(engineOut) = Len(keptFiles)
              /\ \A i \in 1..Len(engineOut) :
                    /\ Len(keptCommits) > 0 =>
                          /\ engineOut[i].pairContributions.additions
                                = FloorTimesRatio(keptFiles[i].additions,
                                      Cardinality(KeptPairCommits), Len(keptCommits))
                          /\ \A j \in 1..Len(engineOut[i].userContributions) :
                                \E c \in 1..Len(keptCommits) :
                                    /\ ~IsExcludedCommit(keptCommits[c])
                                    /\ AuthorOf(keptCommits[c])
                                          = engineOut[i].userContributions[j].user
              /\ runs[1].totalEditLines
                    <= SumOf(keptFiles, "additions") + SumOf(keptFiles, "deletions")
              /\ (\A i \in 1..Len(prFiles) : IsExcludedFile(prFiles[i])) =>
                    (runs[1].totalEditLines = 0 /\ runs[1].userContributions = <<>>)

\* A pull request with an excluded commit beside a pair commit, run over a
\* file with lines
C15_Witness ==
    /\ phase = "filtered"
    /\ Len(runs) >= 1
    /\ Len(prCommits) = 2
    /\ IsExcludedCommit(prCommits[1])
    /\ Len(keptCommits) = 1
    /\ Cardinality(KeptPairCommits) = 1
    /\ Len(engineOut) = 1
    /\ engineOut[1].pairContributions.additions = MaxAdd

C20_UnknownSentinel ==
    (phase = "filtered" /\ Len(runs) >= 1 /\ keptCommits = <<>>) =>
        \A i \in 1..Len(engineOut) :
            /\ Len(engineOut[i].userContributions) = 1
            /\ engineOut[i].userContributions[1].user = "Unknown"
            /\ engineOut[i].userContributions[1].additions = keptFiles[i].additions
            /\ engineOut[i].userContributions[1].deletions = keptFiles[i].deletions
            /\ engineOut[i].userContributions[1].pairAdditions = 0
            /\ engineOut[i].userContributions[1].pairDeletions = 0
            /\ engineOut[i].pairContributions = [additions |-> 0, deletions |-> 0]

\* A pull request all of whose commits were excluded, run over a file with
\* lines
C20_Witness ==
    /\ phase = "filtered"
    /\ Len(runs) >= 1
    /\ Len(prCommits) >= 1
    /\ keptCommits = <<>>
    /\ Len(engineOut) = 1
    /\ keptFiles[1].additions > 0
    /\ runs[1].userContributions[1].user = "Unknown"

\* The distinct author identities of the commits at the indices idx, in the
\* order of their first appearance from index i on
RECURSIVE FirstSeen(_, _, _, _)
FirstSeen(commits, idx, i, seen) ==
    IF i > Len(commits) THEN seen
    ELSE IF i \in idx /\ \A k \in 1..Len(seen) : seen[k] # AuthorOf(commits[i])
         THEN FirstSeen(commits, idx, i + 1, Append(seen, AuthorOf(commits[i])))
         ELSE FirstSeen(commits, idx, i + 1, seen)

\* The value of a field of an identity's entry, 0 without entry
FieldOf(map, user, field) ==
    IF \E k \in 1..Len(map) : map[k].user = user
    THEN map[CHOOSE k \in 1..Len(map) : map[k].user = user][field]
    ELSE 0

\* Pool P over the identities ids: floor(P / n) each, the last one the rest
IsFloorSplit(map, ids, P, field) ==
    LET n == Len(ids)
    IN /\ \A k \in 1..n :
             FieldOf(map, ids[k], field)
                 = IF k < n THEN P \div n ELSE P - (P \div n) * (n - 1)
       /\ \A k \in 1..Len(map) :
             (\A j \in 1..n : ids[j] # map[k].user) => map[k][field] = 0

\* Three commits by three authors, two commits by two authors
ThreeAuthors ==
    << [login |-> "a", name |-> "A", email |-> "a@h", message |-> <<>>],
       [login |-> "b", name |-> "B", email |-> "b@h", message |-> <<>>],
       [login |-> "c", name |-> "C", email |-> "c@h", message |-> <<>>] >>

\* C17: floor-then-remainder split.  In the pair pool and in the non-pair
\* pool, of size P over the n distinct author identities of the pool's
\* commits in first-seen order, the first n - 1 identities get floor(P / n)
\* and the last one P - floor(P / n) * (n - 1), additions and deletions
\* apart; 7 additions over three authors give 2, 2, 3 and +10/-4 over two
\* authors give +5/-2 each.
C17_FloorThenRemainder ==
    /\ (phase = "distributed" /\ Len(inCommits) > 0) =>
          LET pairIdx == { i \in 1..Len(inCommits) : flags[i] }
              soloIdx == { i \in 1..Len(inCommits) : ~flags[i] }
              pairIds == FirstSeen(inCommits, pairIdx, 1, <<>>)
              soloIds == FirstSeen(inCommits, soloIdx, 1, <<>>)
              m == out.userContributions
              pa == out.pairContributions.additions
              pd == out.pairContributions.deletions
          IN /\ IsFloorSplit(m, pairIds, pa, "pairAdditions")
             /\ IsFloorSplit(m, pairIds, pd, "pairDeletions")
             /\ IsFloorSplit(m, soloIds, inFile.additions - pa, "additions")
             /\ IsFloorSplit(m, soloIds, inFile.deletions - pd, "deletions")
    /\ LET seven == distributeFileContributionsWithPairTracking(ThreeAuthors,
                        [filename |-> "a.ts", additions |-> 7, deletions |-> 0], {})
           ten == distributeFileContributionsWithPairTracking(SubSeq(ThreeAuthors, 1, 2),
                        [filename |-> "a.ts", additions |-> 10, deletions |-> 4], {})
       IN /\ [k \in 1..3 |-> seven.userContributions[k].additions] = <<2, 2, 3>>
          /\ [k \in 1..2 |-> ten.userContributions[k].additions] = <<5, 5>>
          /\ [k \in 1..2 |-> ten.userContributions[k].deletions] = <<2, 2>>

\* Three additions over two non-pair authors: 1 for the first, 2 for the last
C17_Witness ==
    /\ phase = "distributed"
    /\ Len(inCommits) = 2
    /\ ~flags[1] /\ ~flags[2]
    /\ Len(out.userContributions) = 2
    /\ out.userContributions[1].additions = 1
    /\ out.userContributions[2].additions = 2

\* C18: pair pool size.  For a file with additions a and deletions d and n
\* commits of which p are pair commits the pair pool is exactly
\* floor(a * p / n) and floor(d * p / n), and the non-pair pool is what is
\* left of a and d; a = 10, d = 4, n = 2, p = 1 gives +5/-2 and +5/-2.
C18_PairPoolSize ==
    /\ phase = "pooled" =>
          /\ pools.pairAdditions = (counts.additions * counts.pairCommits) \div counts.commits
          /\ pools.pairDeletions = (counts.deletions * counts.pairCommits) \div counts.commits
          /\ pools.nonPairAdditions = counts.additions - pools.pairAdditions
          /\ pools.nonPairDeletions = counts.deletions - pools.pairDeletions
    /\ PairPoolLines(10, 1, 2) = 5
    /\ PairPoolLines(4, 1, 2) = 2

\* What an entry says of the individual lines of its identity
Individual(entry) ==
    [user |-> entry.user, additions |-> entry.additions, deletions |-> entry.deletions]

\* C19: degenerate case.  When no commit of the list is a pair commit, as
\* is the case whenever aiEmails is empty, the engine returns a pair pool of
\* 0/0, no pair lines for any identity, and for every identity the additions
\* and deletions the legacy distributeFileContributions returns for the same
\* file and commits.
C19_DegeneratesToEvenSplit ==
    phase = "distributed" =>
        /\ inAi = {} => \A i \in 1..Len(inCommits) : ~flags[i]
        /\ (\A i \in 1..Len(inCommits) : ~flags[i]) =>
              LET legacy == distributeFileContributions(inCommits, inFile)
                  m == out.userContributions
              IN /\ out.pairContributions = [additions |-> 0, deletions |-> 0]
                 /\ \A k \in 1..Len(m) : m[k].pairAdditions = 0 /\ m[k].pairDeletions = 0
                 /\ [k \in 1..Len(m) |-> Individual(m[k])]
                       = [k \in 1..Len(legacy) |-> Individual(legacy[k])]

\* AI emails are configured, yet neither of the two commits by different
\* authors is a pair commit
C19_Witness ==
    /\ phase = "distributed"
    /\ inAi # {}
    /\ Len(inCommits) = 2
    /\ ~flags[1] /\ ~flags[2]
    /\ Len(out.userContributions) = 2
    /\ inFile.additions = MaxAdd
    /\ \E i \in 1..2 : parseCoAuthors(inCommits[i].message) # <<>>

\* The deltas merged so far for one identity, in the order of the calls
DeltasOf(user) == SelectSeq(ledger, LAMBDA d : d.user = user)

CountFields == { "additions", "deletions", "pairAdditions", "pairDeletions" }

\* The delta of the call a step makes
LastDelta == ledger'[Len(ledger')]

\* C21: after any sequence of mergeUserStats calls on one map, the map holds
\* an accumulator for exactly the identities merged so far, and each of its
\* four counters is the sum of that field over the deltas merged for the
\* identity; a call removes no accumulator, lowers no counter, and leaves
\* the accumulators of every identity other than the merged one as they were.
C21_AdditiveAccumulation ==
    /\ [](/\ { statsMap[i].user : i \in 1..Len(statsMap) }
              = { ledger[i].user : i \in 1..Len(ledger) }
          /\ \A i \in 1..Len(statsMap) : \A f \in CountFields :
                statsMap[i][f] = SumOf(DeltasOf(statsMap[i].user), f))
    /\ [][\A i \in 1..Len(statsMap) :
             /\ i <= Len(statsMap')
             /\ statsMap'[i].user = statsMap[i].user
             /\ \A f \in CountFields : statsMap'[i][f] >= statsMap[i][f]
             /\ statsMap[i].user # LastDelta.user => statsMap'[i] = statsMap[i]]_vars

\* Two deltas with additions merged for one identity around a delta merged
\* for another
C21_Witness ==
    /\ Len(ledger) = 3
    /\ ledger[1].user = "bob" /\ ledger[1].additions = 2
    /\ ledger[2].user = "Unknown" /\ ledger[2].pairAdditions = 1
    /\ ledger[3].user = "bob" /\ ledger[3].additions = 1
    /\ statsMap[1].additions = 3
    /\ statsMap[2].pairAdditions = 1

\* The first non-empty value of a field among deltas, "" when there is none
RECURSIVE FirstNonEmpty(_, _)
FirstNonEmpty(deltas, field) ==
    IF deltas = <<>> THEN ""
    ELSE IF Head(deltas)[field] # "" THEN Head(deltas)[field]
    ELSE FirstNonEmpty(Tail(deltas), field)

C23_OutputOrder ==
    phase = "done" =>
       /\ Len(Records) = Len(aggregatedUserStats)
       /\ \A i \in 1..Len(Records) : MapHas(aggregatedUserStats, Records[i].user)
       /\ \A i \in 1..Len(Records) : \A j \in (i + 1)..Len(Records) :
             /\ Records[i].totalLines >= Records[j].totalLines
             /\ Records[i].totalLines = Records[j].totalLines =>
                   MapIndex(aggregatedUserStats, Records[i].user)
                      < MapIndex(aggregatedUserStats, Records[j].user)

\* Three records: the identity merged last has the most lines and comes
\* first, the two merged before it tie
C23_Witness ==
    /\ phase = "done"
    /\ Len(Records) = 3
    /\ Records[1].user = aggregatedUserStats[3].user
    /\ Records[2].totalLines = Records[3].totalLines
    /\ Records[3].totalLines > 0

\* The ways to read a line as  'Co-authored-by:' name '<' email '>'  with
\* nothing but spaces after the '>': the trimmed name and email of each
\* reading in which both are non-empty
Readings(line) ==
    { [name |-> Joined(Trim(SubSeq(line, 2, pair[1] - 1))),
       email |-> Joined(Trim(SubSeq(line, pair[1] + 1, pair[2] - 1)))] :
        pair \in { kp \in (1..Len(line)) \X (1..Len(line)) :
                     /\ line[1] = Label
                     /\ 1 < kp[1] /\ kp[1] < kp[2]
                     /\ line[kp[1]] = "<" /\ line[kp[2]] = ">"
                     /\ \A j \in (kp[2] + 1)..Len(line) : line[j] = " "
                     /\ Joined(Trim(SubSeq(line, 2, kp[1] - 1))) # ""
                     /\ Joined(Trim(SubSeq(line, kp[1] + 1, kp[2] - 1))) # "" } }

\* coAuthors holds one entry for each of lines that has a reading, that entry
\* being one of the line's readings, in the order of the lines, and no other
RECURSIVE OneEntryPerTrailerLine(_, _)
OneEntryPerTrailerLine(lines, coAuthors) ==
    IF lines = <<>> THEN coAuthors = <<>>
    ELSE IF Readings(Head(lines)) = {} THEN OneEntryPerTrailerLine(Tail(lines), coAuthors)
    ELSE /\ coAuthors # <<>>
         /\ Head(coAuthors) \in Readings(Head(lines))
         /\ OneEntryPerTrailerLine(Tail(lines), Tail(coAuthors))

\* C24: parseCoAuthors returns one {name, email} entry for each line of the
\* message that has the shape 'Co-authored-by:' name '<' email '>' with a
\* non-empty trimmed name and a non-empty trimmed email, in message order,
\* and nothing for any other line.
C24_CoAuthorExtraction ==
    phase = "parsed" => OneEntryPerTrailerLine(message, parsed)

\* The counters of an entry
CountersOf(st) == <<st.additions, st.deletions, st.pairAdditions, st.pairDeletions>>

\* C25: against the run on the same files and commits that excludes nobody,
\* the run that excludes contributor X (by username or by email) has no
\* record for X, and a record with the same additions, deletions,
\* pairAdditions and pairDeletions for every other contributor, and no
\* record besides.  X is every identity whose record in the run that
\* excludes nobody shouldExcludeUser matches.
C25_ExclusionDrops ==
    LET X == { Excluded(baseRun.stats)[i].user : i \in 1..Len(Excluded(baseRun.stats)) }
    IN /\ \A i \in 1..Len(aggregatedUserStats) :
             /\ aggregatedUserStats[i].user \notin X
             /\ MapHas(baseRun.stats, aggregatedUserStats[i].user)
       /\ \A i \in 1..Len(baseRun.stats) :
             baseRun.stats[i].user \notin X =>
                /\ MapHas(aggregatedUserStats, baseRun.stats[i].user)
                /\ CountersOf(aggregatedUserStats[MapIndex(aggregatedUserStats,
                                                           baseRun.stats[i].user)])
                      = CountersOf(baseRun.stats[i])

\* C26: the items of a run are handled strictly one after another: at most
\* one awaited call is pending at any time, and every item before a started
\* one is over.  The merges of a pull request are made in the one step in
\* which its second fetch (the commits), entered after the first (the files)
\* returned, returns, while no call of another item is pending; so the
\* merges of one pull request are contiguous in the order of all merges and
\* the pull requests appear in it in program order.
C26_SingleControlFlow ==
    /\ [](/\ \A i, j \in 1..Len(stages) : InFlight(i) /\ InFlight(j) => i = j
          /\ \A i \in 1..Len(stages) :
                stages[i] \notin { "waiting", "skipped" } =>
                   \A j \in 1..(i - 1) : Settled(j)
          /\ \A a \in 1..Len(mergeLog) :
                /\ stages[mergeLog[a]] = "done"
                /\ \A b \in (a + 1)..Len(mergeLog) : mergeLog[a] <= mergeLog[b])
    /\ [][mergeLog' # mergeLog =>
             \E i \in 1..Len(stages) :
                /\ stages[i] = "commits" /\ stages'[i] = "done"
                /\ \A j \in 1..Len(stages) : j # i => ~InFlight(j) /\ stages'[j] = stages[j]
                /\ \E k \in 1..MaxFlowFiles :
                      mergeLog' = mergeLog \o [f \in 1..k |-> i]]_vars

\* Merges of a pull request of the second repository follow merges of a pull
\* request of the first, after a pull request whose fetch failed
C26_Witness ==
    /\ stages = <<"done", "done", "failed", "done", "done", "skipped">>
    /\ mergeLog = <<2, 2, 5, 5>>

\* C27: in every result the three buckets add up to the run totals, for the
\* edit lines, the additions and the deletions; the human and the AI bucket
\* hold the individual lines of their records and nothing else, and the pair
\* bucket holds the pair lines the run accumulated, which cover the pair
\* lines of all records.
C27_BucketsPartitionTotals ==
    phase = "done" =>
       /\ \A f \in { "totalEditLines", "totalAdditions", "totalDeletions" } :
             result.humanContributions[f] + result.aiContributions[f]
                + result.pairContributions[f] = result[f]
       /\ result.humanContributions.totalAdditions = SumOf(HumanRecords, "additions")
       /\ result.humanContributions.totalDeletions = SumOf(HumanRecords, "deletions")
       /\ result.aiContributions.totalAdditions = SumOf(AiRecords, "additions")
       /\ result.aiContributions.totalDeletions = SumOf(AiRecords, "deletions")
       /\ result.pairContributions.totalAdditions = totalPairAdditions
       /\ result.pairContributions.totalDeletions = totalPairDeletions
       /\ totalPairAdditions >= SumOf(Records, "pairAdditions")
       /\ totalPairDeletions >= SumOf(Records, "pairDeletions")

\* A result whose three buckets all hold lines, under an exclusion by email
\* that removed a contributor
C27_Witness ==
    /\ phase = "done"
    /\ exclusionOptions.excludeEmails # {}
    /\ Len(aggregatedUserStats) < Len(baseRun.stats)
    /\ result.humanContributions.totalEditLines > 0
    /\ result.aiContributions.totalEditLines > 0
    /\ result.pairContributions.totalEditLines > 0

\* C28: no entry of the aggregation map, at any point of the run, and no
\* record of the final userContributions has a user in excludeUsers or an
\* email in excludeEmails.
C28_NoExcludedListed ==
    /\ \A i \in 1..Len(aggregatedUserStats) :
          /\ aggregatedUserStats[i].user \notin exclusionOptions.excludeUsers
          /\ aggregatedUserStats[i].email \notin exclusionOptions.excludeEmails
    /\ phase = "done" =>
          /\ Len(Records) = Len(aggregatedUserStats)
          /\ \A i \in 1..Len(Records) :
                /\ Records[i].user \notin exclusionOptions.excludeUsers
                /\ Records[i].email \notin exclusionOptions.excludeEmails

\* The run excludes the email with which Bob is listed when nobody is
\* excluded, and lists Bob with his other email and the lines of the file
\* in which that email came first
C28_Witness ==
    /\ phase = "done"
    /\ exclusionOptions.excludeEmails = { "bob@h" }
    /\ \E i \in 1..Len(baseRun.stats) :
          baseRun.stats[i].user = "bob" /\ baseRun.stats[i].email = "bob@h"
    /\ \E i \in 1..Len(Records) :
          /\ Records[i].user = "bob"
          /\ Records[i].email = "bob@w"
          /\ Records[i].totalLines > 0

\* C29: the totals of the run that excludes no contributor are the sums of
\* the additions and of the deletions over the files that passed the file
\* exclusion, in all pull requests fetched so far, whatever the commit
\* exclusion is; the lines of the files whose pull request has no commit
\* left after the commit exclusion are the individual lines of 'Unknown'.
\* A run whose options exclude no contributor is that run.
C29_CommitExclusionKeepsLines ==
    /\ baseRun.totalAdditions + baseRun.totalPairAdditions = fetched.additions
    /\ baseRun.totalDeletions + baseRun.totalPairDeletions = fetched.deletions
    /\ FieldOf(baseRun.stats, "Unknown", "additions")
          + FieldOf(baseRun.stats, "Unknown", "deletions") = fetched.commitless
    /\ (exclusionOptions.excludeUsers = {} /\ exclusionOptions.excludeEmails = {}) =>
          /\ CurrentRunState = baseRun
          /\ phase = "done" =>
                /\ result.totalAdditions = fetched.additions
                /\ result.totalDeletions = fetched.deletions

\* A finished run without contributor exclusion in which a file's only
\* commit was excluded by its message and another file's was not
C29_Witness ==
    /\ phase = "done"
    /\ exclusionOptions.excludeUsers = {} /\ exclusionOptions.excludeEmails = {}
    /\ exclusionOptions.excludeCommitMessages # <<>>
    /\ fetched.orphaned > 0
    /\ fetched.orphaned = FieldOf(aggregatedUserStats, "Unknown", "additions")
                             + FieldOf(aggregatedUserStats, "Unknown", "deletions")
    /\ result.totalEditLines > fetched.orphaned

\* The lists discovery returned, one after the other
RECURSIVE Flattened(_)
Flattened(lists) == IF lists = <<>> THEN <<>> ELSE Head(lists) \o Flattened(Tail(lists))

\* How many times n stands in list
Occurrences(list, n) == Cardinality({ i \in 1..Len(list) : list[i] = n })

\* C30: in every result prNumbers holds the numbers discovery returned for
\* the repositories whose discovery succeeded, each as many times as it was
\* returned, in ascending order, and totalPRs is the length of prNumbers;
\* whether the fetches of a pull request succeeded makes no difference.
C30_ReportedPRs ==
    phase = "done" =>
       /\ Len(result.prNumbers) = Len(Flattened(discovered))
       /\ \A n \in { Flattened(discovered)[i] : i \in 1..Len(Flattened(discovered)) } :
             Occurrences(result.prNumbers, n) = Occurrences(Flattened(discovered), n)
       /\ \A i \in 1..(Len(result.prNumbers) - 1) :
             result.prNumbers[i] <= result.prNumbers[i + 1]
       /\ result.totalPRs = Len(result.prNumbers)

\* Both repositories returned a pull request, the second the smaller
\* number; a fetch failed and the result holds no line
C30_Witness ==
    /\ phase = "done"
    /\ discovered = << <<7>>, <<3>> >>
    /\ failed
    /\ result.totalEditLines = 0
    /\ result.prNumbers = <<3, 7>>
    /\ result.totalPRs = 2

====
